---- MODULE Spec2Model ----
(***************************************************************************)
(* Backtesting core of Yahoo-Finance-Trader-Sim: the order model           *)
(* (src/execution/order.py), the portfolio ledger                          *)
(* (src/portfolio/portfolio.py) and the backtest engine                    *)
(* (src/engine/backtest.py).                                               *)
(*                                                                         *)
(* Money and prices are Python floats in the source.  They are modelled    *)
(* as exact rationals <<numerator, denominator>> in lowest terms, so the   *)
(* arithmetic identities are those of the reals; float rounding is not     *)
(* modelled.  Python's None is the empty tuple.                            *)
(***************************************************************************)
EXTENDS Integers, Sequences, FiniteSets, TLC

VARIABLES
    portfolio,      \* BacktestEngine.portfolio / a Portfolio object
    portfolio2,     \* the portfolio of a second engine (two-engine runs only)
    data,           \* BacktestEngine.data: symbol -> DataFrame
    strategy,       \* BacktestEngine.strategy: None or the bound strategy
    current_date,   \* BacktestEngine.current_date
    pc,             \* position inside run(), or how the latest call ended
    all_dates,      \* run(): local all_dates
    date_idx,       \* run(): number of dates of all_dates already processed
    current_data,   \* run(): local current_data of the current date
    signals,        \* run(): signals of the current date not yet executed
    run_start_len,  \* length of the equity curve when the current run began
    runs,           \* number of run() calls made
    emitted,        \* number of signals the strategy has returned so far
    last_call,      \* the latest call on the ledger, with its pre-state
    prev_call,      \* the call before last_call
    ncalls,         \* number of ledger calls made
    client_order,   \* the Order object a caller of the executor holds
    init_args,      \* the arguments BacktestEngine(...) was called with
    trades_df,      \* the trade history DataFrame an analyst holds
    equity_df,      \* the equity curve DataFrame an analyst holds
    metrics         \* the latest PerformanceMetrics call and what it gave

vars == <<portfolio, portfolio2, data, strategy, current_date, pc, all_dates,
          date_idx, current_data, signals, run_start_len, runs, emitted,
          last_call, prev_call, ncalls, client_order, init_args,
          trades_df, equity_df, metrics>>

\* what only the callers of the constructors and of the executor change
client_vars == <<client_order, init_args, trades_df, equity_df, metrics>>

\* what only the callers of PerformanceMetrics change
metric_vars == <<trades_df, equity_df, metrics>>

engine_vars == <<data, strategy, current_date, pc, all_dates, date_idx,
                 current_data, signals, run_start_len, runs, emitted>>

-----------------------------------------------------------------------------
(* Bounds of the model *)

\* calls made on a bare Portfolio
MaxCalls == 3
\* signals a strategy returns over the life of an engine
MaxSignals == 2
\* run() calls on one engine
MaxRuns == 2

-----------------------------------------------------------------------------
(* Exact rational arithmetic standing for float arithmetic *)

NoneV == <<>>

Abs(n) == IF n < 0 THEN -n ELSE n

RECURSIVE GCD(_, _)
GCD(a, b) == IF b = 0 THEN a ELSE GCD(b, a % b)

\* n/d in lowest terms, d > 0
Rat(n, d) == LET g == GCD(Abs(n), d) IN <<n \div g, d \div g>>

R(n) == <<n, 1>>
RZero == R(0)

RAdd(a, b) ==
    LET g == GCD(a[2], b[2])
    IN  Rat(a[1] * (b[2] \div g) + b[1] * (a[2] \div g), (a[2] \div g) * b[2])
RNeg(a) == <<-a[1], a[2]>>
RSub(a, b) == RAdd(a, RNeg(b))
RMul(a, b) == Rat(a[1] * b[1], a[2] * b[2])
\* a / b for b > 0
RDiv(a, b) == Rat(a[1] * b[2], a[2] * b[1])
RAbs(a) == <<Abs(a[1]), a[2]>>
RLt(a, b) == a[1] * b[2] < b[1] * a[2]
RLe(a, b) == a[1] * b[2] <= b[1] * a[2]

-----------------------------------------------------------------------------
(* Order model: src/execution/order.py *)

MARKET == "market"
LIMIT == "limit"
STOP == "stop"
STOP_LIMIT == "stop_limit"
OrderType == {MARKET, LIMIT, STOP, STOP_LIMIT}

BUY == "buy"
SELL == "sell"
OrderSide == {BUY, SELL}

PENDING == "pending"
FILLED == "filled"
PARTIALLY_FILLED == "partially_filled"
CANCELLED == "cancelled"
REJECTED == "rejected"
OrderStatus == {PENDING, FILLED, PARTIALLY_FILLED, CANCELLED, REJECTED}

\* str(n): a string made of the number, never the number itself
Str(n) == <<"str", n>>

\* Mutant of Order_post_init: a StopLimit order is refused only when both
\* prices are missing
Order_post_init_stop_limit_and(quantity, order_type, limit_price, stop_price) ==
    /\ ~(quantity <= 0)
    /\ ~(order_type = LIMIT /\ limit_price = NoneV)
    /\ ~(order_type = STOP /\ stop_price = NoneV)
    /\ ~(order_type = STOP_LIMIT /\ (limit_price = NoneV /\ stop_price = NoneV))

\* Order.__post_init__: TRUE iff construction does not raise ValueError
Order_post_init(quantity, order_type, limit_price, stop_price) ==
    /\ ~(quantity <= 0)
    /\ ~(order_type = LIMIT /\ limit_price = NoneV)
    /\ ~(order_type = STOP /\ stop_price = NoneV)
    /\ ~(order_type = STOP_LIMIT /\ (limit_price = NoneV \/ stop_price = NoneV))

\* the dataclass Order with its field defaults
Order(symbol, order_type, side, quantity, timestamp, limit_price, stop_price) ==
    [symbol |-> symbol, order_type |-> order_type, side |-> side,
     quantity |-> quantity, timestamp |-> timestamp,
     limit_price |-> limit_price, stop_price |-> stop_price,
     status |-> PENDING, filled_quantity |-> 0, fill_price |-> NoneV,
     fill_timestamp |-> NoneV, order_id |-> NoneV]

\* the dataclass Fill
Fill(order_id, symbol, side, quantity, price, timestamp, commission) ==
    [order_id |-> order_id, symbol |-> symbol, side |-> side,
     quantity |-> quantity, price |-> price, timestamp |-> timestamp,
     commission |-> commission]

\* OrderExecutor.__init__
OrderExecutor(commission_rate) ==
    [commission_rate |-> commission_rate, next_order_id |-> 1]

\* Mutant of execute_market_order: the commission leaves the quantity out
execute_market_order_flat_commission(executor, order, current_price, timestamp) ==
    LET fresh == order.order_id = NoneV
        oid == IF fresh THEN Str(executor.next_order_id) ELSE order.order_id
        commission == RAbs(RMul(current_price, executor.commission_rate))
    IN  [fill |-> Fill(oid, order.symbol, order.side, order.quantity,
                       current_price, timestamp, commission),
         order |-> [order EXCEPT !.order_id = oid,
                                 !.status = FILLED,
                                 !.filled_quantity = order.quantity,
                                 !.fill_price = current_price,
                                 !.fill_timestamp = <<timestamp>>],
         executor |-> [executor EXCEPT !.next_order_id =
                          IF fresh THEN @ + 1 ELSE @]]

\* OrderExecutor.execute_market_order: the fill, the order and the executor
\* as the call leaves them
execute_market_order(executor, order, current_price, timestamp) ==
    LET fresh == order.order_id = NoneV
        oid == IF fresh THEN Str(executor.next_order_id) ELSE order.order_id
        commission ==
            RAbs(RMul(RMul(R(order.quantity), current_price),
                      executor.commission_rate))
    IN  [fill |-> Fill(oid, order.symbol, order.side, order.quantity,
                       current_price, timestamp, commission),
         order |-> [order EXCEPT !.order_id = oid,
                                 !.status = FILLED,
                                 !.filled_quantity = order.quantity,
                                 !.fill_price = current_price,
                                 !.fill_timestamp = <<timestamp>>],
         executor |-> [executor EXCEPT !.next_order_id =
                          IF fresh THEN @ + 1 ELSE @]]

\* the limit condition of execute_limit_order
should_execute(order, current_price) ==
    \/ order.side = BUY /\ RLe(current_price, order.limit_price)
    \/ order.side = SELL /\ RLe(order.limit_price, current_price)

\* Mutant of execute_limit_order: the fill is made at the current price
execute_limit_order_at_current(executor, order, current_price, timestamp) ==
    IF order.limit_price = NoneV
    THEN [fill |-> NoneV, order |-> order, executor |-> executor]
    ELSE IF should_execute(order, current_price)
    THEN LET ex == execute_market_order(executor, order, current_price,
                                        timestamp)
         IN  [fill |-> <<ex.fill>>, order |-> ex.order,
              executor |-> ex.executor]
    ELSE [fill |-> NoneV, order |-> order, executor |-> executor]

\* OrderExecutor.execute_limit_order: the value returned (None, or the fill
\* in a 1-tuple), the order and the executor as the call leaves them
execute_limit_order(executor, order, current_price, timestamp) ==
    IF order.limit_price = NoneV
    THEN [fill |-> NoneV, order |-> order, executor |-> executor]
    ELSE IF should_execute(order, current_price)
    THEN LET ex == execute_market_order(executor, order, order.limit_price,
                                        timestamp)
         IN  [fill |-> <<ex.fill>>, order |-> ex.order,
              executor |-> ex.executor]
    ELSE [fill |-> NoneV, order |-> order, executor |-> executor]

-----------------------------------------------------------------------------
(* Portfolio ledger: src/portfolio/portfolio.py *)

\* dict assignment d[k] = v and del d[k]
DictSet(d, k, v) == [t \in DOMAIN d \cup {k} |-> IF t = k THEN v ELSE d[t]]
DictDel(d, k) == [t \in DOMAIN d \ {k} |-> d[t]]
EmptyDict == [t \in {} |-> 0]

\* Portfolio.__init__
Portfolio(initial_capital, commission_rate) ==
    [initial_capital |-> initial_capital,
     cash |-> initial_capital,
     positions |-> EmptyDict,
     avg_prices |-> EmptyDict,
     executor |-> OrderExecutor(commission_rate),
     total_value |-> initial_capital,
     equity_curve |-> <<>>,
     trades |-> <<>>,
     realized_pnl |-> RZero,
     unrealized_pnl |-> RZero]

\* Mutant of BuyBooked: the commission is spread over the cost basis
BuyBooked_commission_in_basis(p, fill) ==
    LET total_cost == RAdd(RMul(R(fill.quantity), fill.price), fill.commission)
        held == fill.symbol \in DOMAIN p.positions
        current_qty == p.positions[fill.symbol]
        total_qty == current_qty + fill.quantity
    IN  [p EXCEPT
           !.cash = RSub(@, total_cost),
           !.avg_prices = DictSet(@, fill.symbol,
               IF held
               THEN RDiv(RAdd(RMul(R(current_qty), @[fill.symbol]), total_cost),
                         R(total_qty))
               ELSE RDiv(total_cost, R(fill.quantity))),
           !.positions = DictSet(@, fill.symbol,
               IF held THEN total_qty ELSE fill.quantity),
           !.trades = Append(@, fill)]

\* the body of _process_buy once the cash check has passed
BuyBooked(p, fill) ==
    LET total_cost == RAdd(RMul(R(fill.quantity), fill.price), fill.commission)
        held == fill.symbol \in DOMAIN p.positions
        current_qty == p.positions[fill.symbol]
        total_qty == current_qty + fill.quantity
    IN  [p EXCEPT
           !.cash = RSub(@, total_cost),
           !.avg_prices = DictSet(@, fill.symbol,
               IF held
               THEN RDiv(RAdd(RMul(R(current_qty), @[fill.symbol]),
                              RMul(R(fill.quantity), fill.price)),
                         R(total_qty))
               ELSE fill.price),
           !.positions = DictSet(@, fill.symbol,
               IF held THEN total_qty ELSE fill.quantity),
           !.trades = Append(@, fill)]

\* Mutant of _process_buy: the cash check is dropped
_process_buy_no_cash_check(p, fill) ==
    [p |-> BuyBooked(p, fill), result |-> TRUE]

\* Mutant of _process_buy: the commission is not charged to cash
_process_buy_no_commission(p, fill) ==
    IF RLt(p.cash, RAdd(RMul(R(fill.quantity), fill.price), fill.commission))
    THEN [p |-> p, result |-> FALSE]
    ELSE [p |-> [BuyBooked(p, fill) EXCEPT
                   !.cash = RSub(p.cash, RMul(R(fill.quantity), fill.price))],
          result |-> TRUE]

\* Mutant of _process_buy: a buy refused for lack of cash is logged all the
\* same
_process_buy_logs_rejected(p, fill) ==
    IF RLt(p.cash, RAdd(RMul(R(fill.quantity), fill.price), fill.commission))
    THEN [p |-> [p EXCEPT !.trades = Append(@, fill)], result |-> FALSE]
    ELSE [p |-> BuyBooked(p, fill), result |-> TRUE]

\* Portfolio._process_buy: the portfolio after the call and the value returned
_process_buy(p, fill) ==
    IF RLt(p.cash, RAdd(RMul(R(fill.quantity), fill.price), fill.commission))
    THEN [p |-> p, result |-> FALSE]
    ELSE [p |-> BuyBooked(p, fill), result |-> TRUE]

\* Mutant of SellBooked: realized P&L is not scaled by the quantity sold
SellBooked_unscaled(p, fill) ==
    LET avg_cost == p.avg_prices[fill.symbol]
        realized == RSub(RSub(fill.price, avg_cost), fill.commission)
        proceeds == RSub(RMul(R(fill.quantity), fill.price), fill.commission)
        left == p.positions[fill.symbol] - fill.quantity
    IN  [p EXCEPT
           !.realized_pnl = RAdd(@, realized),
           !.cash = RAdd(@, proceeds),
           !.positions = IF left = 0 THEN DictDel(@, fill.symbol)
                         ELSE DictSet(@, fill.symbol, left),
           !.avg_prices = IF left = 0 THEN DictDel(@, fill.symbol) ELSE @,
           !.trades = Append(@, fill)]

\* Mutant of SellBooked: the commission is added to the proceeds
SellBooked_commission_added(p, fill) ==
    LET avg_cost == p.avg_prices[fill.symbol]
        realized == RSub(RMul(RSub(fill.price, avg_cost), R(fill.quantity)),
                         fill.commission)
        proceeds == RAdd(RMul(R(fill.quantity), fill.price), fill.commission)
        left == p.positions[fill.symbol] - fill.quantity
    IN  [p EXCEPT
           !.realized_pnl = RAdd(@, realized),
           !.cash = RAdd(@, proceeds),
           !.positions = IF left = 0 THEN DictDel(@, fill.symbol)
                         ELSE DictSet(@, fill.symbol, left),
           !.avg_prices = IF left = 0 THEN DictDel(@, fill.symbol) ELSE @,
           !.trades = Append(@, fill)]

\* Mutant of SellBooked: a partial sell moves the average cost to the
\* price of the sale
SellBooked_avg_reset(p, fill) ==
    LET avg_cost == p.avg_prices[fill.symbol]
        realized == RSub(RMul(RSub(fill.price, avg_cost), R(fill.quantity)),
                         fill.commission)
        proceeds == RSub(RMul(R(fill.quantity), fill.price), fill.commission)
        left == p.positions[fill.symbol] - fill.quantity
    IN  [p EXCEPT
           !.realized_pnl = RAdd(@, realized),
           !.cash = RAdd(@, proceeds),
           !.positions = IF left = 0 THEN DictDel(@, fill.symbol)
                         ELSE DictSet(@, fill.symbol, left),
           !.avg_prices = IF left = 0 THEN DictDel(@, fill.symbol)
                          ELSE DictSet(@, fill.symbol, fill.price),
           !.trades = Append(@, fill)]

\* Mutant of SellBooked: the average cost of a closed position is kept
SellBooked_keep_avg(p, fill) ==
    LET avg_cost == p.avg_prices[fill.symbol]
        realized == RSub(RMul(RSub(fill.price, avg_cost), R(fill.quantity)),
                         fill.commission)
        proceeds == RSub(RMul(R(fill.quantity), fill.price), fill.commission)
        left == p.positions[fill.symbol] - fill.quantity
    IN  [p EXCEPT
           !.realized_pnl = RAdd(@, realized),
           !.cash = RAdd(@, proceeds),
           !.positions = IF left = 0 THEN DictDel(@, fill.symbol)
                         ELSE DictSet(@, fill.symbol, left),
           !.trades = Append(@, fill)]

\* the body of _process_sell once both position checks have passed
SellBooked(p, fill) ==
    LET avg_cost == p.avg_prices[fill.symbol]
        realized == RSub(RMul(RSub(fill.price, avg_cost), R(fill.quantity)),
                         fill.commission)
        proceeds == RSub(RMul(R(fill.quantity), fill.price), fill.commission)
        left == p.positions[fill.symbol] - fill.quantity
    IN  [p EXCEPT
           !.realized_pnl = RAdd(@, realized),
           !.cash = RAdd(@, proceeds),
           !.positions = IF left = 0 THEN DictDel(@, fill.symbol)
                         ELSE DictSet(@, fill.symbol, left),
           !.avg_prices = IF left = 0 THEN DictDel(@, fill.symbol) ELSE @,
           !.trades = Append(@, fill)]

\* Mutant of _process_sell: the held-quantity check is dropped
_process_sell_oversell(p, fill) ==
    IF fill.symbol \notin DOMAIN p.positions
    THEN [p |-> p, result |-> FALSE]
    ELSE [p |-> SellBooked(p, fill), result |-> TRUE]

\* Mutant of _process_sell: a closed position is left in the maps
_process_sell_keep_closed(p, fill) ==
    IF fill.symbol \notin DOMAIN p.positions
    THEN [p |-> p, result |-> FALSE]
    ELSE IF p.positions[fill.symbol] < fill.quantity
    THEN [p |-> p, result |-> FALSE]
    ELSE [p |-> [SellBooked(p, fill) EXCEPT
                   !.positions = DictSet(p.positions, fill.symbol,
                       p.positions[fill.symbol] - fill.quantity),
                   !.avg_prices = p.avg_prices],
          result |-> TRUE]

\* Portfolio._process_sell
_process_sell(p, fill) ==
    IF fill.symbol \notin DOMAIN p.positions
    THEN [p |-> p, result |-> FALSE]
    ELSE IF p.positions[fill.symbol] < fill.quantity
    THEN [p |-> p, result |-> FALSE]
    ELSE [p |-> SellBooked(p, fill), result |-> TRUE]

\* Mutant of execute_order: a filled order also records a snapshot
execute_order_marks(p, order, current_price) ==
    LET ex == execute_market_order(p.executor, order, current_price,
                                   order.timestamp)
        q == [p EXCEPT !.executor = ex.executor]
        r == IF ex.fill.side = BUY THEN _process_buy(q, ex.fill)
             ELSE _process_sell(q, ex.fill)
    IN  [p |-> IF r.result
               THEN [r.p EXCEPT !.equity_curve = Append(@,
                        [timestamp |-> order.timestamp,
                         total_value |-> r.p.total_value,
                         cash |-> r.p.cash,
                         position_value |-> RZero,
                         realized_pnl |-> r.p.realized_pnl,
                         unrealized_pnl |-> r.p.unrealized_pnl])]
               ELSE r.p,
         order |-> ex.order, result |-> r.result]

\* Portfolio.execute_order: the portfolio and the order after the call, and
\* the value returned.  execute_market_order never returns None.
execute_order(p, order, current_price) ==
    LET ex == execute_market_order(p.executor, order, current_price,
                                   order.timestamp)
        q == [p EXCEPT !.executor = ex.executor]
        r == IF ex.fill.side = BUY THEN _process_buy(q, ex.fill)
             ELSE _process_sell(q, ex.fill)
    IN  [p |-> r.p, order |-> ex.order, result |-> r.result]

\* sum of f[s] over a set of symbols
RECURSIVE RSum(_, _)
RSum(f, S) ==
    IF S = {} THEN RZero
    ELSE LET s == CHOOSE t \in S : TRUE IN RAdd(f[s], RSum(f, S \ {s}))

\* the positions update_positions prices: symbol in cdata and
\* timestamp in cdata[symbol].index
Priced(p, cdata, timestamp) ==
    {s \in DOMAIN p.positions :
        s \in DOMAIN cdata /\ timestamp \in DOMAIN cdata[s]}

\* Mutant of Close: the first row of the frame is read, not the row at
\* the timestamp
Close_first_row(df, timestamp) ==
    df[CHOOSE t \in DOMAIN df : \A u \in DOMAIN df : t <= u]

\* df.loc[timestamp, 'Close']
Close(df, timestamp) == df[timestamp]

\* Mutant of update_positions: total_value leaves the cash out
update_positions_no_cash(p, cdata, timestamp) ==
    LET S == Priced(p, cdata, timestamp)
        position_value ==
            RSum([s \in S |-> RMul(R(p.positions[s]),
                                   Close(cdata[s], timestamp))], S)
        unrealized ==
            RSum([s \in S |-> RMul(RSub(Close(cdata[s], timestamp),
                                        p.avg_prices[s]),
                                   R(p.positions[s]))], S)
    IN  [p EXCEPT
           !.unrealized_pnl = unrealized,
           !.total_value = position_value,
           !.equity_curve = Append(@,
               [timestamp |-> timestamp,
                total_value |-> position_value,
                cash |-> p.cash,
                position_value |-> position_value,
                realized_pnl |-> p.realized_pnl,
                unrealized_pnl |-> unrealized])]

\* Mutant of update_positions: the unrealized P&L leaves the quantity out
update_positions_unrealized_unscaled(p, cdata, timestamp) ==
    LET S == Priced(p, cdata, timestamp)
        position_value ==
            RSum([s \in S |-> RMul(R(p.positions[s]),
                                   Close(cdata[s], timestamp))], S)
        unrealized ==
            RSum([s \in S |-> RSub(Close(cdata[s], timestamp),
                                   p.avg_prices[s])], S)
        total_value == RAdd(p.cash, position_value)
    IN  [p EXCEPT
           !.unrealized_pnl = unrealized,
           !.total_value = total_value,
           !.equity_curve = Append(@,
               [timestamp |-> timestamp,
                total_value |-> total_value,
                cash |-> p.cash,
                position_value |-> position_value,
                realized_pnl |-> p.realized_pnl,
                unrealized_pnl |-> unrealized])]

\* Portfolio.update_positions
update_positions(p, cdata, timestamp) ==
    LET S == Priced(p, cdata, timestamp)
        position_value ==
            RSum([s \in S |-> RMul(R(p.positions[s]),
                                   Close(cdata[s], timestamp))], S)
        unrealized ==
            RSum([s \in S |-> RMul(RSub(Close(cdata[s], timestamp),
                                        p.avg_prices[s]),
                                   R(p.positions[s]))], S)
        total_value == RAdd(p.cash, position_value)
    IN  [p EXCEPT
           !.unrealized_pnl = unrealized,
           !.total_value = total_value,
           !.equity_curve = Append(@,
               [timestamp |-> timestamp,
                total_value |-> total_value,
                cash |-> p.cash,
                position_value |-> position_value,
                realized_pnl |-> p.realized_pnl,
                unrealized_pnl |-> unrealized])]

-----------------------------------------------------------------------------
(* Inputs *)

\* BacktestEngine.__init__: the default initial_capital
DefaultInitialCapital == 100000

Symbols == {"A", "B"}

\* (initial_capital, commission) pairs the engine constructor accepts:
\* commission >= 0 and initial_capital > 0
Configs ==
    {<<R(5), RZero>>, <<R(5), Rat(1, 10)>>, <<R(4), RZero>>, <<R(5), R(4)>>,
     <<R(DefaultInitialCapital), RZero>>}

\* the worked example of the specification: 100 shares at 100 and at 110
\* from the default capital, commission 0
IsScenario(p) == p.initial_capital = R(DefaultInitialCapital)

InSymbols(p) == IF IsScenario(p) THEN {"A"} ELSE Symbols
InQuantities(p) == IF IsScenario(p) THEN {100} ELSE {0, 1, 2}
InPrices(p) == IF IsScenario(p) THEN {R(100), R(110)} ELSE {R(1), R(2)}

\* DataFrames: timestamp -> Close (the only column the core reads)
DF_12 == (1 :> R(1)) @@ (2 :> R(2))
DF_1 == (1 :> R(2))
DF_13 == (1 :> R(2)) @@ (3 :> R(1))
DF_scn == (1 :> R(100)) @@ (2 :> R(110))

\* current_data arguments handed to update_positions by a direct caller
InCurrentData(p) ==
    IF IsScenario(p) THEN {("A" :> DF_scn)}
    ELSE {("A" :> DF_12), ("A" :> DF_12) @@ ("B" :> DF_1)}

\* pd.DataFrame(): no columns and no rows
EmptyFrame == [columns |-> {}, rows |-> <<>>]

\* no PerformanceMetrics function has been called
NoMetrics ==
    /\ trades_df = EmptyFrame
    /\ equity_df = EmptyFrame
    /\ metrics = [fn |-> "none", value |-> NoneV]

NoCall ==
    [op |-> "none", order |-> NoneV, price |-> NoneV, result |-> FALSE,
     current_data |-> NoneV, timestamp |-> NoneV, pre |-> NoneV]

-----------------------------------------------------------------------------
(* A Portfolio driven directly through its public methods *)

Init ==
    /\ \E c \in Configs :
          /\ init_args = c
          /\ portfolio = Portfolio(c[1], c[2])
          /\ portfolio2 = Portfolio(c[1], c[2])
    /\ client_order = NoneV
    /\ NoMetrics
    /\ data = EmptyDict
    /\ strategy = NoneV
    /\ current_date = NoneV
    /\ pc = "idle"
    /\ all_dates = <<>>
    /\ date_idx = 0
    /\ current_data = EmptyDict
    /\ signals = <<>>
    /\ run_start_len = 0
    /\ runs = 0
    /\ emitted = 0
    /\ last_call = NoCall
    /\ prev_call = NoCall
    /\ ncalls = 0

\* the bookkeeping of one Portfolio.execute_order call
CallExecuteOrder(order, price) ==
    LET r == execute_order(portfolio, order, price)
    IN  /\ portfolio' = r.p
        /\ last_call' = [op |-> "execute_order", order |-> r.order,
                         price |-> price, result |-> r.result,
                         current_data |-> NoneV, timestamp |-> NoneV,
                         pre |-> portfolio]
        /\ prev_call' = last_call
        /\ ncalls' = ncalls + 1

\* the bookkeeping of one Portfolio.update_positions call
CallUpdatePositions(cdata, timestamp) ==
    /\ portfolio' = update_positions(portfolio, cdata, timestamp)
    /\ last_call' = [op |-> "update_positions", order |-> NoneV,
                     price |-> NoneV, result |-> FALSE,
                     current_data |-> cdata,
                     timestamp |-> <<timestamp>>, pre |-> portfolio]
    /\ prev_call' = last_call
    /\ ncalls' = ncalls + 1

\* a caller constructs a market order and passes it to execute_order
LedgerExecuteOrder ==
    /\ ncalls < MaxCalls
    /\ \E symbol \in InSymbols(portfolio), side \in OrderSide,
          quantity \in InQuantities(portfolio), price \in InPrices(portfolio) :
          /\ Order_post_init(quantity, MARKET, NoneV, NoneV)
          /\ CallExecuteOrder(
                Order(symbol, MARKET, side, quantity, ncalls + 1, NoneV, NoneV),
                price)
    /\ UNCHANGED <<portfolio2, engine_vars, client_vars>>

\* a caller marks the ledger to market
LedgerUpdatePositions ==
    /\ ncalls < MaxCalls
    /\ \E cdata \in InCurrentData(portfolio), timestamp \in {1, 2} :
          CallUpdatePositions(cdata, timestamp)
    /\ UNCHANGED <<portfolio2, engine_vars, client_vars>>

LedgerNext == LedgerExecuteOrder \/ LedgerUpdatePositions

LedgerSpec == Init /\ [][LedgerNext]_vars

-----------------------------------------------------------------------------
(* Backtest engine: src/engine/backtest.py *)

\* sorted(S) for a set of timestamps
RECURSIVE Sorted(_)
Sorted(S) ==
    IF S = {} THEN <<>>
    ELSE LET m == CHOOSE x \in S : \A y \in S : x <= y
         IN  <<m>> \o Sorted(S \ {m})

\* Mutant of AllDates: the indexes are concatenated and sorted without
\* set(), so a date shared by two symbols appears twice
RECURSIVE SortedWithRepeats(_, _)
SortedWithRepeats(d, S) ==
    IF S = {} THEN <<>>
    ELSE LET m == CHOOSE x \in S : \A y \in S : x <= y
             n == Cardinality({s \in DOMAIN d : m \in DOMAIN d[s]})
         IN  [k \in 1..n |-> m] \o SortedWithRepeats(d, S \ {m})

AllDates_no_dedup(d) ==
    SortedWithRepeats(d, UNION {DOMAIN d[s] : s \in DOMAIN d})

\* run(): sorted(set().union(*[set(df.index) for df in self.data.values()]))
AllDates(d) == Sorted(UNION {DOMAIN d[s] : s \in DOMAIN d})

\* Mutant of LocUpTo: the whole frame is handed over, later bars included
LocUpTo_whole(df, date) == df

\* df.loc[:date]
LocUpTo(df, date) == [t \in {u \in DOMAIN df : u <= date} |-> df[t]]

\* run(): the current_data built for one date
CurrentData(d, date) ==
    [s \in {t \in DOMAIN d : date \in DOMAIN d[t]} |-> LocUpTo(d[s], date)]

\* signal.get('order_type', OrderType.MARKET)
SignalOrderType(signal) ==
    IF "order_type" \in DOMAIN signal THEN signal.order_type ELSE MARKET

\* Mutant of _execute_signal: a symbol with no bar at the date is looked up
\* all the same and the lookup raises
_execute_signal_keyerror(p, signal, cdata, date) ==
    IF signal.symbol \notin DOMAIN cdata
          \/ date \notin DOMAIN cdata[signal.symbol]
    THEN [outcome |-> "raised", p |-> p]
    ELSE IF ~Order_post_init(signal.quantity, SignalOrderType(signal),
                             NoneV, NoneV)
    THEN [outcome |-> "raised", p |-> p]
    ELSE LET current_price == Close(cdata[signal.symbol], date)
             order == Order(signal.symbol, SignalOrderType(signal),
                            signal.side, signal.quantity, date, NoneV, NoneV)
             r == execute_order(p, order, current_price)
         IN  [outcome |-> "executed", p |-> r.p, order |-> r.order,
              result |-> r.result, price |-> current_price]

\* BacktestEngine._execute_signal on portfolio p: what happens ("skipped":
\* early return, "raised": Order() raises ValueError, "executed":
\* execute_order was called) and the portfolio, order and result after it
_execute_signal(p, signal, cdata, date) ==
    IF signal.symbol \notin DOMAIN cdata
          \/ date \notin DOMAIN cdata[signal.symbol]
    THEN [outcome |-> "skipped", p |-> p]
    ELSE IF ~Order_post_init(signal.quantity, SignalOrderType(signal),
                             NoneV, NoneV)
    THEN [outcome |-> "raised", p |-> p]
    ELSE LET current_price == Close(cdata[signal.symbol], date)
             order == Order(signal.symbol, SignalOrderType(signal),
                            signal.side, signal.quantity, date, NoneV, NoneV)
             r == execute_order(p, order, current_price)
         IN  [outcome |-> "executed", p |-> r.p, order |-> r.order,
              result |-> r.result, price |-> current_price]

\* series a caller may load: per symbol, ascending unique timestamps
InSeries(p, symbol) ==
    IF IsScenario(p) THEN {DF_scn}
    ELSE IF symbol = "A" THEN {DF_12, DF_1} ELSE {DF_13}

\* signals a strategy may return
InSignals(p) ==
    IF IsScenario(p)
    THEN {[symbol |-> "A", side |-> sd, quantity |-> 100] : sd \in OrderSide}
    ELSE {[symbol |-> "A", side |-> sd, quantity |-> 1] : sd \in OrderSide}
         \cup {[symbol |-> "B", side |-> sd, quantity |-> 2,
                order_type |-> MARKET] : sd \in OrderSide}
         \cup {[symbol |-> "A", side |-> BUY, quantity |-> 0],
               [symbol |-> "A", side |-> SELL, quantity |-> 1,
                order_type |-> LIMIT]}

\* the lists of at most n signals
SignalLists(p, n) ==
    UNION {[1..k -> InSignals(p)] : k \in 0..n}

\* Mutant of BacktestEngine_accepts: a capital of zero is let through
BacktestEngine_accepts_zero_capital(initial_capital, commission) ==
    /\ ~RLt(commission, RZero)
    /\ ~RLt(initial_capital, RZero)

\* BacktestEngine.__init__: neither "if commission < 0" nor
\* "if initial_capital <= 0" raises ValueError
BacktestEngine_accepts(initial_capital, commission) ==
    /\ ~RLt(commission, RZero)
    /\ ~RLe(initial_capital, RZero)

\* arguments a caller may pass to BacktestEngine(initial_capital, commission)
InConstructorArgs ==
    Configs \cup {<<RZero, RZero>>, <<R(-5), RZero>>, <<R(5), Rat(-1, 10)>>,
                  <<RZero, Rat(-1, 10)>>}

\* BacktestEngine(initial_capital, commission): the engine with its
\* portfolio, or the ValueError that leaves no engine behind
EngineInit ==
    /\ \E c \in InConstructorArgs :
          /\ init_args = c
          /\ IF BacktestEngine_accepts(c[1], c[2])
             THEN /\ portfolio = Portfolio(c[1], c[2])
                  /\ portfolio2 = Portfolio(c[1], c[2])
                  /\ pc = "idle"
             ELSE /\ portfolio = NoneV
                  /\ portfolio2 = NoneV
                  /\ pc = "raised_init"
    /\ client_order = NoneV
    /\ NoMetrics
    /\ data = EmptyDict
    /\ strategy = NoneV
    /\ current_date = NoneV
    /\ all_dates = <<>>
    /\ date_idx = 0
    /\ current_data = EmptyDict
    /\ signals = <<>>
    /\ run_start_len = 0
    /\ runs = 0
    /\ emitted = 0
    /\ last_call = NoCall
    /\ prev_call = NoCall
    /\ ncalls = 0

\* no call of the engine is in progress (and the engine exists)
NotRunning == pc \in {"idle", "returned", "raised_config", "raised_order"}

\* BacktestEngine.add_data
AddData ==
    /\ NotRunning
    /\ \E symbol \in InSymbols(portfolio) :
          \E df \in InSeries(portfolio, symbol) :
             data' = DictSet(data, symbol, df)
    /\ pc' = "idle"
    /\ UNCHANGED <<portfolio, portfolio2, strategy, current_date,
                   all_dates, date_idx, current_data, signals, run_start_len,
                   runs, emitted, last_call, prev_call, ncalls>>
    /\ UNCHANGED client_vars

\* BacktestEngine.set_strategy
SetStrategy ==
    /\ NotRunning
    /\ strategy' = <<"strategy">>
    /\ pc' = "idle"
    /\ UNCHANGED <<portfolio, portfolio2, data, current_date, all_dates,
                   date_idx, current_data, signals, run_start_len, runs,
                   emitted, last_call, prev_call, ncalls>>
    /\ UNCHANGED client_vars

\* Mutant of ConfigError: only the strategy is checked
ConfigError_strategy_only(strat, d) == strat = NoneV

\* run(): "if self.strategy is None" and "if not self.data", each raising
\* ValueError
ConfigError(strat, d) == strat = NoneV \/ DOMAIN d = {}

\* run(): the two configuration checks and the computation of all_dates
RunBegin ==
    /\ NotRunning
    /\ runs < MaxRuns
    /\ runs' = runs + 1
    /\ IF ConfigError(strategy, data)
       THEN /\ pc' = "raised_config"
            /\ UNCHANGED <<all_dates, date_idx, run_start_len>>
       ELSE /\ pc' = "loop"
            /\ all_dates' = AllDates(data)
            /\ date_idx' = 0
            /\ run_start_len' = Len(portfolio.equity_curve)
    /\ UNCHANGED <<portfolio, portfolio2, data, strategy, current_date,
                   current_data, signals, emitted, last_call, prev_call,
                   ncalls>>
    /\ UNCHANGED client_vars

\* run(): the head of one loop iteration, up to the strategy's answer
RunNextDate ==
    /\ pc = "loop"
    /\ date_idx < Len(all_dates)
    /\ LET date == all_dates[date_idx + 1]
       IN  /\ current_date' = <<date>>
           /\ current_data' = CurrentData(data, date)
    /\ \E sigs \in SignalLists(portfolio, MaxSignals - emitted) :
          /\ signals' = sigs
          /\ emitted' = emitted + Len(sigs)
    /\ pc' = "signals"
    /\ UNCHANGED <<portfolio, portfolio2, data, strategy, all_dates, date_idx,
                   run_start_len, runs, last_call, prev_call, ncalls>>
    /\ UNCHANGED client_vars

\* Mutant of NextSignal: the loop takes the signals from the back
NextSignal_last(sigs) == sigs[Len(sigs)]

\* run(): "for signal in signals" takes the signals in list order
NextSignal(sigs) == Head(sigs)

\* Mutant of ExecuteSignalStep: the order id counter is shared by all
\* executors, so the second engine's ids go on from the first engine's
ExecuteSignalStep_shared_ids(lockstep) ==
    /\ pc = "signals"
    /\ signals # <<>>
    /\ LET r == _execute_signal(portfolio, NextSignal(signals), current_data,
                                current_date[1])
           shared == [portfolio2 EXCEPT !.executor.next_order_id =
                         r.p.executor.next_order_id]
           r2 == _execute_signal(shared, NextSignal(signals), current_data,
                                 current_date[1])
       IN  /\ portfolio2' = IF lockstep THEN r2.p ELSE portfolio2
           /\ IF r.outcome = "executed"
              THEN /\ portfolio' = r.p
                   /\ last_call' = [op |-> "execute_order", order |-> r.order,
                                    price |-> r.price, result |-> r.result,
                                    current_data |-> NoneV,
                                    timestamp |-> NoneV, pre |-> portfolio]
                   /\ prev_call' = last_call
                   /\ ncalls' = ncalls + 1
              ELSE UNCHANGED <<portfolio, last_call, prev_call, ncalls>>
           /\ IF r.outcome = "raised"
              THEN pc' = "raised_order" /\ signals' = <<>>
              ELSE pc' = pc /\ signals' = Tail(signals)
    /\ UNCHANGED <<data, strategy, current_date, all_dates, date_idx,
                   current_data, run_start_len, runs, emitted>>
    /\ UNCHANGED client_vars

\* run(): self._execute_signal(signal, current_data) for the next signal;
\* with lockstep the same signal also goes to the second engine
ExecuteSignalStep(lockstep) ==
    /\ pc = "signals"
    /\ signals # <<>>
    /\ LET r == _execute_signal(portfolio, NextSignal(signals), current_data,
                                current_date[1])
           r2 == _execute_signal(portfolio2, NextSignal(signals), current_data,
                                 current_date[1])
       IN  /\ portfolio2' = IF lockstep THEN r2.p ELSE portfolio2
           /\ IF r.outcome = "executed"
              THEN /\ portfolio' = r.p
                   /\ last_call' = [op |-> "execute_order", order |-> r.order,
                                    price |-> r.price, result |-> r.result,
                                    current_data |-> NoneV,
                                    timestamp |-> NoneV, pre |-> portfolio]
                   /\ prev_call' = last_call
                   /\ ncalls' = ncalls + 1
              ELSE UNCHANGED <<portfolio, last_call, prev_call, ncalls>>
           /\ IF r.outcome = "raised"
              THEN pc' = "raised_order" /\ signals' = <<>>
              ELSE pc' = pc /\ signals' = Tail(signals)
    /\ UNCHANGED <<data, strategy, current_date, all_dates, date_idx,
                   current_data, run_start_len, runs, emitted>>
    /\ UNCHANGED client_vars

\* run(): self.portfolio.update_positions(current_data, current_date)
UpdatePositionsStep(lockstep) ==
    /\ pc = "signals"
    /\ signals = <<>>
    /\ CallUpdatePositions(current_data, current_date[1])
    /\ portfolio2' = IF lockstep
                     THEN update_positions(portfolio2, current_data,
                                           current_date[1])
                     ELSE portfolio2
    /\ date_idx' = date_idx + 1
    /\ pc' = "loop"
    /\ UNCHANGED <<data, strategy, current_date, all_dates, current_data,
                   signals, run_start_len, runs, emitted>>
    /\ UNCHANGED client_vars

RunExecuteSignal == ExecuteSignalStep(FALSE)

RunUpdatePositions == UpdatePositionsStep(FALSE)

\* run(): return self.portfolio.get_performance_history()
RunReturn ==
    /\ pc = "loop"
    /\ date_idx = Len(all_dates)
    /\ pc' = "returned"
    /\ UNCHANGED <<portfolio, portfolio2, data, strategy, current_date,
                   all_dates, date_idx, current_data, signals, run_start_len,
                   runs, emitted, last_call, prev_call, ncalls>>
    /\ UNCHANGED client_vars

Next ==
    \/ AddData
    \/ SetStrategy
    \/ RunBegin
    \/ RunNextDate
    \/ RunExecuteSignal
    \/ RunUpdatePositions
    \/ RunReturn

Spec == EngineInit /\ [][Next]_vars

-----------------------------------------------------------------------------
(* Two engines run side by side on the same data and the same signals *)

\* commission rates r1 <= r2 of the two engines
PairRates ==
    {<<RZero, RZero>>, <<RZero, Rat(1, 10)>>, <<Rat(1, 10), Rat(1, 2)>>}

\* the data loaded into both engines by add_data
PairData ==
    {("A" :> DF_12), ("B" :> DF_13), ("A" :> DF_12) @@ ("B" :> DF_13),
     ("A" :> DF_1) @@ ("B" :> DF_13)}

\* both engines constructed, loaded and bound to their strategies
PairInit ==
    /\ \E r \in PairRates :
          /\ init_args = <<R(5), r[1]>>
          /\ portfolio = Portfolio(R(5), r[1])
          /\ portfolio2 = Portfolio(R(5), r[2])
    /\ client_order = NoneV
    /\ NoMetrics
    /\ data \in PairData
    /\ strategy = <<"strategy">>
    /\ current_date = NoneV
    /\ pc = "idle"
    /\ all_dates = <<>>
    /\ date_idx = 0
    /\ current_data = EmptyDict
    /\ signals = <<>>
    /\ run_start_len = 0
    /\ runs = 0
    /\ emitted = 0
    /\ last_call = NoCall
    /\ prev_call = NoCall
    /\ ncalls = 0

PairExecuteSignal == ExecuteSignalStep(TRUE)

PairUpdatePositions == UpdatePositionsStep(TRUE)

PairNext ==
    \/ RunBegin
    \/ RunNextDate
    \/ PairExecuteSignal
    \/ PairUpdatePositions
    \/ RunReturn

PairSpec == PairInit /\ [][PairNext]_vars

-----------------------------------------------------------------------------
(* Properties of the ledger *)

Snapshots(p) == {p.equity_curve[k] : k \in 1..Len(p.equity_curve)}

\* the ledger fields a rejected order must leave alone
Ledger(p) ==
    <<p.cash, p.positions, p.avg_prices, p.realized_pnl, p.trades,
      p.equity_curve>>

IsExec(c, side) == c.op = "execute_order" /\ c.order.side = side

\* quantity*price + commission of the order of call c, at the rate of p
CallCost(p, c) ==
    LET gross == RMul(R(c.order.quantity), c.price)
    IN  RAdd(gross, RAbs(RMul(gross, p.executor.commission_rate)))

\* C1: every snapshot appended by update_positions has
\* total_value = cash + position_value.
C1_TotalIsCashPlusPositionValue ==
    \A s \in Snapshots(portfolio) :
        s.total_value = RAdd(s.cash, s.position_value)

\* a snapshot taken while a priced position is open and cash is left
C1_Witness ==
    \E s \in Snapshots(portfolio) :
        RLt(RZero, s.position_value) /\ RLt(RZero, s.cash)

\* C3: every quantity stored in the positions map is strictly positive.
C3_PositionsStrictlyPositive ==
    \A s \in DOMAIN portfolio.positions : portfolio.positions[s] > 0

\* a sell has just closed one position while another stays open
C3_Witness ==
    /\ IsExec(last_call, SELL) /\ last_call.result
    /\ last_call.order.symbol \notin DOMAIN portfolio.positions
    /\ DOMAIN portfolio.positions # {}

\* C4: a buy whose quantity*price + commission exceeds the cash returns
\* False and leaves cash, positions, average costs, realized_pnl, the
\* trade log and the equity curve as they were.
C4_RejectedBuyChangesNothing ==
    (IsExec(last_call, BUY)
        /\ RLt(last_call.pre.cash, CallCost(last_call.pre, last_call)))
    => (~last_call.result /\ Ledger(portfolio) = Ledger(last_call.pre))

\* a buy that costs more than the cash left after earlier trades
C4_Witness ==
    /\ IsExec(last_call, BUY)
    /\ RLt(last_call.pre.cash, CallCost(last_call.pre, last_call))
    /\ ~last_call.result
    /\ last_call.pre.trades # <<>>

\* the two cases in which a sell must be refused
SellRefused(c) ==
    \/ c.order.symbol \notin DOMAIN c.pre.positions
    \/ c.pre.positions[c.order.symbol] < c.order.quantity

\* C5: a sell of a symbol with no open position, or of more than is held,
\* returns False and leaves cash, positions, average costs, realized_pnl
\* and the trade log as they were.
C5_RejectedSellChangesNothing ==
    (IsExec(last_call, SELL) /\ SellRefused(last_call))
    => /\ ~last_call.result
       /\ portfolio.cash = last_call.pre.cash
       /\ portfolio.positions = last_call.pre.positions
       /\ portfolio.avg_prices = last_call.pre.avg_prices
       /\ portfolio.realized_pnl = last_call.pre.realized_pnl
       /\ portfolio.trades = last_call.pre.trades

\* a sell of more than the quantity held
C5_Witness ==
    /\ IsExec(last_call, SELL)
    /\ last_call.order.symbol \in DOMAIN last_call.pre.positions
    /\ last_call.pre.positions[last_call.order.symbol]
          < last_call.order.quantity
    /\ ~last_call.result

\* the effect on cash of the fills of a trade log, per the closure rule
RECURSIVE NetCashFlow(_)
NetCashFlow(trades) ==
    IF trades = <<>> THEN RZero
    ELSE LET f == Head(trades)
             gross == RMul(R(f.quantity), f.price)
         IN  RAdd(IF f.side = BUY
                  THEN RNeg(RAdd(gross, f.commission))
                  ELSE RSub(gross, f.commission),
                  NetCashFlow(Tail(trades)))

\* C6: cash = initial_capital - sum over buy fills of
\* (quantity*price + commission) + sum over sell fills of
\* (quantity*price - commission).
C6_AccountingClosure ==
    portfolio.cash =
        RAdd(portfolio.initial_capital, NetCashFlow(portfolio.trades))

\* a log holding a buy and a sell, both with a commission
C6_Witness ==
    /\ \E k \in 1..Len(portfolio.trades) :
          portfolio.trades[k].side = BUY
          /\ RLt(RZero, portfolio.trades[k].commission)
    /\ \E k \in 1..Len(portfolio.trades) :
          portfolio.trades[k].side = SELL
          /\ RLt(RZero, portfolio.trades[k].commission)

\* a successful buy of a symbol not held, then a sell of the same quantity
\* of that symbol, at commission rate 0
RoundTrip ==
    /\ portfolio.executor.commission_rate = RZero
    /\ IsExec(prev_call, BUY) /\ prev_call.result
    /\ prev_call.order.symbol \notin DOMAIN prev_call.pre.positions
    /\ IsExec(last_call, SELL)
    /\ last_call.order.symbol = prev_call.order.symbol
    /\ last_call.order.quantity = prev_call.order.quantity

\* Q * (P2 - P1) of the round trip
RoundTripGain ==
    RMul(R(prev_call.order.quantity), RSub(last_call.price, prev_call.price))

\* C7: at commission rate 0, buying Q at P1 a symbol not held and then
\* selling Q at P2 adds Q*(P2-P1) to realized_pnl and to the cash held
\* before the buy and leaves no position in the symbol; with P1 = P2 on a
\* fresh ledger realized_pnl = 0 and cash = initial_capital; 100 at 100
\* then 100 at 110 from 100000 gives realized_pnl 1000 and cash 101000.
C7_ZeroCommissionRoundTrip ==
    RoundTrip =>
        /\ last_call.result
        /\ portfolio.realized_pnl =
              RAdd(prev_call.pre.realized_pnl, RoundTripGain)
        /\ portfolio.cash = RAdd(prev_call.pre.cash, RoundTripGain)
        /\ last_call.order.symbol \notin DOMAIN portfolio.positions
        /\ (prev_call.price = last_call.price /\ prev_call.pre.trades = <<>>)
              => (portfolio.realized_pnl = RZero
                  /\ portfolio.cash = portfolio.initial_capital)
        /\ (/\ portfolio.initial_capital = R(DefaultInitialCapital)
            /\ prev_call.pre.trades = <<>>
            /\ prev_call.order.quantity = 100
            /\ prev_call.price = R(100) /\ last_call.price = R(110))
              => (portfolio.realized_pnl = R(1000)
                  /\ portfolio.cash = R(101000))

\* the worked example: 100 at 100 then 100 at 110 from 100000
C7_Witness ==
    /\ RoundTrip
    /\ prev_call.pre.trades = <<>>
    /\ prev_call.order.quantity = 100
    /\ prev_call.price = R(100) /\ last_call.price = R(110)
    /\ portfolio.cash = R(101000)

-----------------------------------------------------------------------------
(* Properties of the engine *)

Last(q) == q[Len(q)]

\* run() has just marked the ledger to market for current_date
JustMarked == pc = "loop" /\ date_idx > 0

\* the latest bar of df at or before date
LastBarAtOrBefore(df, date) ==
    CHOOSE t \in DOMAIN df : t <= date /\ \A u \in DOMAIN df : u <= date => u <= t

HasBarAtOrBefore(s, date) ==
    s \in DOMAIN data /\ \E t \in DOMAIN data[s] : t <= date

HasBarAt(s, date) == s \in DOMAIN data /\ date \in DOMAIN data[s]

\* C2 as stated: the snapshot's total_value is cash plus, over every open
\* position, quantity times the last known Close at or before the
\* snapshot's timestamp, also for symbols with no bar at that timestamp.
C2_TotalUsesLastKnownPrice ==
    (JustMarked
        /\ \A s \in DOMAIN portfolio.positions :
              HasBarAtOrBefore(s, current_date[1]))
    => Last(portfolio.equity_curve).total_value =
          RAdd(portfolio.cash,
               RSum([s \in DOMAIN portfolio.positions |->
                        RMul(R(portfolio.positions[s]),
                             data[s][LastBarAtOrBefore(data[s],
                                                       current_date[1])])],
                    DOMAIN portfolio.positions))

\* C2 amended: the snapshot's total_value is cash plus, over the open
\* positions whose symbol has a bar at the snapshot's timestamp, quantity
\* times the Close of that bar; a position with no bar there adds nothing.
C2_TotalUsesBarsAtTimestamp ==
    JustMarked
    => LET date == current_date[1]
           S == {s \in DOMAIN portfolio.positions : HasBarAt(s, date)}
       IN  /\ Last(portfolio.equity_curve).timestamp = date
           /\ Last(portfolio.equity_curve).total_value =
                 RAdd(portfolio.cash,
                      RSum([s \in S |-> RMul(R(portfolio.positions[s]),
                                             data[s][date])], S))

\* a snapshot taken while one held symbol has a bar and another has none
C2_Witness ==
    /\ JustMarked
    /\ \E s \in DOMAIN portfolio.positions : HasBarAt(s, current_date[1])
    /\ \E s \in DOMAIN portfolio.positions : ~HasBarAt(s, current_date[1])

\* the ids of the orders filled into the trade log of p
FilledIds(p) == {p.trades[k].order_id : k \in 1..Len(p.trades)}

RunReturned == pc = "returned" /\ portfolio.equity_curve # <<>>

AddedTimestamps ==
    [k \in 1..(Len(portfolio.equity_curve) - run_start_len) |->
        portfolio.equity_curve[run_start_len + k].timestamp]

LoadedTimestamps == UNION {DOMAIN data[s] : s \in DOMAIN data}

StrictlyIncreasing(q) == \A k \in 1..(Len(q) - 1) : q[k] < q[k + 1]

\* C9: run() appends one snapshot per distinct timestamp of the loaded
\* symbols, in ascending order: while it runs (and if Order() aborts it)
\* the snapshots added are those of the earliest timestamps, one each;
\* once it returns they are as many as the distinct timestamps, at most
\* the series length for a single symbol.
C9_OneSnapshotPerTimestamp ==
    LET added == {AddedTimestamps[k] : k \in DOMAIN AddedTimestamps}
    IN  /\ pc \in {"loop", "signals", "returned", "raised_order"}
           => /\ StrictlyIncreasing(AddedTimestamps)
              /\ Len(AddedTimestamps) = date_idx
              /\ added \subseteq LoadedTimestamps
              /\ \A t \in LoadedTimestamps :
                    (\E u \in added : t < u) => t \in added
        /\ pc = "returned"
           => /\ added = LoadedTimestamps
              /\ Len(AddedTimestamps) = Cardinality(LoadedTimestamps)
              /\ \A s \in DOMAIN data :
                    DOMAIN data = {s}
                    => Len(AddedTimestamps) <= Cardinality(DOMAIN data[s])

\* a returned run over two symbols that share one timestamp and differ on
\* the others
C9_Witness ==
    /\ pc = "returned"
    /\ Cardinality(DOMAIN data) = 2
    /\ Len(AddedTimestamps) = 3
    /\ portfolio.trades # <<>>

IsPrefix(q, r) == Len(q) <= Len(r) /\ SubSeq(r, 1, Len(q)) = q

CurveTimestamps(p) ==
    [k \in 1..Len(p.equity_curve) |-> p.equity_curve[k].timestamp]

\* C10 as stated: whatever add_data, set_strategy and run calls are made,
\* run twice included, every step keeps the snapshots already in the
\* equity curve and leaves its timestamps strictly increasing.
C10_CurveAppendOnlyStrictlyIncreasing ==
    [][/\ IsPrefix(portfolio.equity_curve, portfolio'.equity_curve)
       /\ StrictlyIncreasing(CurveTimestamps(portfolio'))]_vars

-----------------------------------------------------------------------------
(* What the strategy sees and the order of the work of one date *)

\* C11: at every timestamp T of run(), each slice handed to
\* generate_signals has only rows with timestamp <= T, has the row at T and
\* is made of rows of the loaded series; only symbols with a bar at T are
\* handed over
C11_NoLookAhead ==
    pc = "signals" =>
       LET T == current_date[1]
       IN  /\ DOMAIN current_data \subseteq
                 {s \in DOMAIN data : T \in DOMAIN data[s]}
           /\ \A s \in DOMAIN current_data :
                 /\ \A t \in DOMAIN current_data[s] :
                       t <= T /\ t \in DOMAIN data[s]
                          /\ current_data[s][t] = data[s][t]
                 /\ T \in DOMAIN current_data[s]

\* the strategy is called at a date after which two loaded symbols both
\* have later bars
C11_Witness ==
    /\ pc = "signals"
    /\ Cardinality(DOMAIN current_data) = 2
    /\ \A s \in DOMAIN current_data :
          \E t \in DOMAIN data[s] : t > current_date[1]

\* what C12 asks of one step of run()
C12_Step ==
    LET T == current_date[1]
        marked == portfolio'.equity_curve # portfolio.equity_curve
        traded == portfolio'.trades # portfolio.trades
    IN  /\ (pc = "signals" /\ signals # <<>>) =>
              LET sg == signals[1]
              IN  /\ ~marked
                  /\ \/ pc' = "raised_order"
                     \/ pc' = "signals" /\ signals' = Tail(signals)
                  /\ (ncalls' # ncalls) =>
                        /\ last_call'.op = "execute_order"
                        /\ last_call'.pre = portfolio
                        /\ last_call'.order.symbol = sg.symbol
                        /\ last_call'.order.side = sg.side
                        /\ last_call'.order.quantity = sg.quantity
                        /\ last_call'.order.timestamp = T
                        /\ last_call'.price = data[sg.symbol][T]
        /\ traded =>
              /\ pc = "signals" /\ signals # <<>>
              /\ Last(portfolio'.trades).timestamp = T
              /\ Last(portfolio'.trades).price = data[signals[1].symbol][T]
        /\ marked =>
              /\ pc = "signals" /\ signals = <<>>
              /\ ~traded
              /\ Last(portfolio'.equity_curve).timestamp = T
              /\ Last(portfolio'.equity_curve).cash = portfolio.cash

\* C12: within one timestamp T run() executes the signals one at a time in
\* the order the strategy returned them, each against the Close of its
\* symbol at T, and marks the ledger to market for T only after the last
\* signal, so that the snapshot at T has the cash left by every fill at T
C12_SignalsInOrderThenMark == [][C12_Step]_vars

\* two signals of one date were filled one after the other, then the date
\* was marked to market
C12_Witness ==
    /\ JustMarked
    /\ prev_call.op = "execute_order"
    /\ LET n == Len(portfolio.trades)
           T == current_date[1]
       IN  /\ n >= 2
           /\ portfolio.trades[n - 1].timestamp = T
           /\ portfolio.trades[n].timestamp = T
           /\ portfolio.trades[n - 1].symbol # portfolio.trades[n].symbol
           /\ Last(portfolio.equity_curve).timestamp = T
           /\ Last(portfolio.equity_curve).cash = portfolio.cash

-----------------------------------------------------------------------------
(* Errors of configuration and construction *)

\* what C13 asks of one step: a step that counts a new run is a call of
\* run()
C13_Step ==
    /\ (runs' # runs) =>
          IF strategy = NoneV \/ DOMAIN data = {}
          THEN /\ pc' = "raised_config"
               /\ portfolio'.cash = portfolio.cash
               /\ portfolio'.positions = portfolio.positions
               /\ portfolio'.trades = portfolio.trades
               /\ portfolio'.equity_curve = portfolio.equity_curve
               /\ portfolio' = portfolio
               /\ current_date' = current_date
          ELSE pc' = "loop"
    /\ (pc' = "raised_config" /\ pc # "raised_config") => runs' # runs

\* C13: run() raises a configuration error when no strategy is set or no
\* data has been added, and then neither the ledger (cash, positions,
\* trade log, equity curve) nor current_date has been modified
C13_ConfigErrorChangesNothing == [][C13_Step]_vars

\* run() has raised for an engine with data loaded and no strategy
C13_Witness ==
    /\ pc = "raised_config"
    /\ strategy = NoneV
    /\ DOMAIN data # {}

\* C14: BacktestEngine(initial_capital, commission) with
\* initial_capital <= 0 or commission < 0 raises and leaves no engine and
\* no ledger; every constructed engine has initial_capital > 0 and
\* commission >= 0
C14_ConstructorValidation ==
    /\ (RLe(init_args[1], RZero) \/ RLt(init_args[2], RZero)) =>
          pc = "raised_init" /\ portfolio = NoneV
    /\ pc # "raised_init" =>
          /\ portfolio.initial_capital = init_args[1]
          /\ portfolio.executor.commission_rate = init_args[2]
          /\ RLt(RZero, portfolio.initial_capital)
          /\ RLe(RZero, portfolio.executor.commission_rate)

\* the constructor was called with a capital of exactly zero and raised
C14_Witness ==
    /\ pc = "raised_init"
    /\ init_args[1] = RZero
    /\ ~RLt(init_args[2], RZero)

\* what C15 asks of the step that handles a signal whose symbol has no bar
\* at the current date
C15_Step ==
    (/\ pc = "signals"
     /\ signals # <<>>
     /\ ~(/\ signals[1].symbol \in DOMAIN data
          /\ current_date[1] \in DOMAIN data[signals[1].symbol])) =>
       /\ pc' = "signals"
       /\ signals' = Tail(signals)
       /\ portfolio'.executor = portfolio.executor
       /\ Ledger(portfolio') = Ledger(portfolio)
       /\ portfolio' = portfolio
       /\ ncalls' = ncalls
       /\ last_call' = last_call

\* C15: a signal for a symbol with no bar at the current timestamp is
\* skipped without error: no order is created, the ledger is unchanged by
\* it and the remaining signals of the timestamp stay to be processed
C15_NoBarSignalSkipped == [][C15_Step]_vars

\* at date 2 a signal for B, loaded with bars at 1 and 3 only, has been
\* passed over and a further signal of the date is about to be processed
C15_Witness ==
    /\ pc = "signals"
    /\ runs = 1
    /\ current_date = <<2>>
    /\ "B" \in DOMAIN data
    /\ signals # <<>>
    /\ emitted - Len(signals) > portfolio.executor.next_order_id - 1

-----------------------------------------------------------------------------
(* A caller that constructs orders and passes them to the executor of a    *)
(* portfolio, or to the portfolio itself                                   *)

\* arguments a caller may pass to Order(...): every order type with and
\* without the prices it requires, and quantities that are not positive
InOrderArgs ==
    [symbol : {"A"}, order_type : {MARKET}, side : OrderSide,
     quantity : {-1, 0, 2}, limit_price : {NoneV}, stop_price : {NoneV}]
    \cup
    [symbol : {"A"}, order_type : {LIMIT}, side : OrderSide,
     quantity : {2}, limit_price : {NoneV, R(1), R(2)}, stop_price : {NoneV}]
    \cup
    [symbol : {"A"}, order_type : {STOP}, side : OrderSide,
     quantity : {2}, limit_price : {NoneV}, stop_price : {NoneV, R(1)}]
    \cup
    [symbol : {"A"}, order_type : {STOP_LIMIT}, side : OrderSide,
     quantity : {2}, limit_price : {NoneV, R(2)}, stop_price : {NoneV, R(1)}]

\* prices a caller may pass to the executor
InOrderPrices == {R(1), R(2)}

OrderInit == Init /\ ~IsScenario(portfolio)

\* Order(...): the new object replaces the one the caller holds, unless
\* __post_init__ raises ValueError
OrderConstruct ==
    /\ ncalls < MaxCalls
    /\ \E a \in InOrderArgs :
          LET ok == Order_post_init(a.quantity, a.order_type, a.limit_price,
                                    a.stop_price)
          IN  /\ client_order' =
                    IF ok
                    THEN <<Order(a.symbol, a.order_type, a.side, a.quantity,
                                 ncalls + 1, a.limit_price, a.stop_price)>>
                    ELSE client_order
              /\ last_call' = [op |-> "Order", args |-> a, raised |-> ~ok,
                               pre_order |-> client_order]
    /\ prev_call' = last_call
    /\ ncalls' = ncalls + 1
    /\ UNCHANGED <<portfolio, portfolio2, engine_vars, init_args, metric_vars>>

\* portfolio.executor.execute_market_order(order, price, timestamp)
OrderExecuteMarket ==
    /\ ncalls < MaxCalls
    /\ client_order # NoneV
    /\ \E price \in InOrderPrices :
          LET ex == execute_market_order(portfolio.executor, client_order[1],
                                         price, ncalls + 1)
          IN  /\ client_order' = <<ex.order>>
              /\ portfolio' = [portfolio EXCEPT !.executor = ex.executor]
              /\ last_call' = [op |-> "execute_market_order",
                               pre_order |-> client_order[1],
                               pre |-> portfolio, price |-> price,
                               timestamp |-> ncalls + 1,
                               fill |-> <<ex.fill>>]
    /\ prev_call' = last_call
    /\ ncalls' = ncalls + 1
    /\ UNCHANGED <<portfolio2, engine_vars, init_args, metric_vars>>

\* portfolio.executor.execute_limit_order(order, price, timestamp)
OrderExecuteLimit ==
    /\ ncalls < MaxCalls
    /\ client_order # NoneV
    /\ \E price \in InOrderPrices :
          LET ex == execute_limit_order(portfolio.executor, client_order[1],
                                        price, ncalls + 1)
          IN  /\ client_order' = <<ex.order>>
              /\ portfolio' = [portfolio EXCEPT !.executor = ex.executor]
              /\ last_call' = [op |-> "execute_limit_order",
                               pre_order |-> client_order[1],
                               pre |-> portfolio, price |-> price,
                               timestamp |-> ncalls + 1,
                               fill |-> ex.fill]
    /\ prev_call' = last_call
    /\ ncalls' = ncalls + 1
    /\ UNCHANGED <<portfolio2, engine_vars, init_args, metric_vars>>

\* portfolio.execute_order(order, price)
OrderSubmit ==
    /\ ncalls < MaxCalls
    /\ client_order # NoneV
    /\ \E price \in InOrderPrices :
          /\ CallExecuteOrder(client_order[1], price)
          /\ client_order' =
                <<execute_order(portfolio, client_order[1], price).order>>
    /\ UNCHANGED <<portfolio2, engine_vars, init_args, metric_vars>>

OrderNext ==
    \/ OrderConstruct
    \/ OrderExecuteMarket
    \/ OrderExecuteLimit
    \/ OrderSubmit

OrderSpec == OrderInit /\ [][OrderNext]_vars

-----------------------------------------------------------------------------
(* Order construction and the executor *)

\* the constructions C16 names as failing
C16_Refused(a) ==
    \/ a.quantity <= 0
    \/ a.order_type = LIMIT /\ a.limit_price = NoneV
    \/ a.order_type = STOP /\ a.stop_price = NoneV
    \/ a.order_type = STOP_LIMIT /\ a.limit_price = NoneV
    \/ a.order_type = STOP_LIMIT /\ a.stop_price = NoneV

\* C16: Order(...) raises, and leaves the caller without a new Order,
\* when quantity <= 0, when a Limit order has no limit price, a Stop order
\* no stop price or a StopLimit order lacks either price; every other
\* construction yields an order with status Pending
C16_OrderValidation ==
    last_call.op = "Order" =>
       LET a == last_call.args
       IN  IF C16_Refused(a)
           THEN last_call.raised /\ client_order = last_call.pre_order
           ELSE /\ ~last_call.raised
                /\ client_order # NoneV
                /\ client_order[1].status = PENDING
                /\ client_order[1].order_id = NoneV
                /\ client_order[1].filled_quantity = 0
                /\ client_order[1].symbol = a.symbol
                /\ client_order[1].order_type = a.order_type
                /\ client_order[1].side = a.side
                /\ client_order[1].quantity = a.quantity
                /\ client_order[1].limit_price = a.limit_price
                /\ client_order[1].stop_price = a.stop_price

\* a StopLimit order with a limit price and no stop price was refused
C16_Witness ==
    /\ last_call.op = "Order"
    /\ last_call.raised
    /\ last_call.args.order_type = STOP_LIMIT
    /\ last_call.args.quantity > 0
    /\ last_call.args.limit_price # NoneV
    /\ last_call.args.stop_price = NoneV

\* C17: execute_market_order always returns a fill for the whole quantity
\* of the order at the given price with commission
\* |quantity * price * rate| >= 0, and leaves the order Filled with
\* filled_quantity = quantity and fill_price = price
C17_MarketOrderAlwaysFills ==
    last_call.op = "execute_market_order" =>
       LET o == last_call.pre_order
           rate == last_call.pre.executor.commission_rate
       IN  /\ last_call.fill # NoneV
           /\ last_call.fill[1].symbol = o.symbol
           /\ last_call.fill[1].side = o.side
           /\ last_call.fill[1].quantity = o.quantity
           /\ last_call.fill[1].price = last_call.price
           /\ last_call.fill[1].commission =
                 RAbs(RMul(RMul(R(o.quantity), last_call.price), rate))
           /\ RLe(RZero, last_call.fill[1].commission)
           /\ client_order[1].status = FILLED
           /\ client_order[1].filled_quantity = o.quantity
           /\ client_order[1].fill_price = last_call.price

\* a pending order was market-filled by an executor that charges commission
C17_Witness ==
    /\ last_call.op = "execute_market_order"
    /\ last_call.pre_order.status = PENDING
    /\ last_call.pre.executor.commission_rate # RZero
    /\ last_call.fill[1].commission # RZero

\* the limit condition as C18 states it, for the order and price of call c
C18_ConditionMet(c) ==
    /\ c.pre_order.limit_price # NoneV
    /\ \/ c.pre_order.side = BUY /\ RLe(c.price, c.pre_order.limit_price)
       \/ c.pre_order.side = SELL /\ RLe(c.pre_order.limit_price, c.price)

\* C18: execute_limit_order returns a fill if and only if (Buy and current
\* price <= limit price) or (Sell and current price >= limit price); the
\* fill is at the limit price; when no fill is returned the order is as it
\* was (a pending order stays Pending, without id and without fill fields)
\* and no order id has been issued
C18_LimitOrderFillsAtLimit ==
    last_call.op = "execute_limit_order" =>
       LET o == last_call.pre_order
       IN  /\ (last_call.fill # NoneV) <=> C18_ConditionMet(last_call)
           /\ (last_call.fill # NoneV) =>
                 /\ last_call.fill[1].price = o.limit_price
                 /\ last_call.fill[1].quantity = o.quantity
                 /\ client_order[1].status = FILLED
                 /\ client_order[1].fill_price = o.limit_price
           /\ (last_call.fill = NoneV) =>
                 /\ client_order[1] = o
                 /\ portfolio.executor = last_call.pre.executor
                 /\ (o.status = PENDING) =>
                       /\ client_order[1].status = PENDING
                       /\ client_order[1].order_id = NoneV
                       /\ client_order[1].filled_quantity = 0
                       /\ client_order[1].fill_price = NoneV
                       /\ client_order[1].fill_timestamp = NoneV

\* a pending limit order was filled at its limit price while the current
\* price was a different one
C18_Witness ==
    /\ last_call.op = "execute_limit_order"
    /\ last_call.pre_order.status = PENDING
    /\ last_call.fill # NoneV
    /\ last_call.fill[1].price # last_call.price

\* a pending limit order whose condition was not met came back unfilled
C18_WitnessUnfilled ==
    /\ last_call.op = "execute_limit_order"
    /\ last_call.pre_order.status = PENDING
    /\ last_call.pre_order.order_type = LIMIT
    /\ last_call.fill = NoneV

\* the limit condition of the order of the execute_order call c at the
\* price of the call
C19_ConditionMet(c) ==
    \/ c.order.side = BUY /\ RLe(c.price, c.order.limit_price)
    \/ c.order.side = SELL /\ RLe(c.order.limit_price, c.price)

\* C19: a newly constructed Limit order passed to Portfolio.execute_order
\* at a price that does not meet its limit condition is discarded
\* unfilled: its status is not Filled, no fill is added to the trade log
\* and cash and positions are unchanged
C19_LimitThroughLedgerOnlyWhenMet ==
    (/\ last_call.op = "execute_order"
     /\ prev_call.op = "Order"
     /\ ~prev_call.raised
     /\ last_call.order.order_type = LIMIT
     /\ ~C19_ConditionMet(last_call)) =>
       /\ last_call.order.status # FILLED
       /\ portfolio.trades = last_call.pre.trades
       /\ portfolio.cash = last_call.pre.cash
       /\ portfolio.positions = last_call.pre.positions

\* C20: a validly constructed Stop or StopLimit order is never Filled and
\* no fill for it is ever in the trade log, whatever operations of the
\* executor or of the ledger it is passed to
C20_StopOrdersNeverFilled ==
    (/\ client_order # NoneV
     /\ client_order[1].order_type \in {STOP, STOP_LIMIT}) =>
       /\ client_order[1].status # FILLED
       /\ \A k \in 1..Len(portfolio.trades) :
             portfolio.trades[k].order_id # client_order[1].order_id

-----------------------------------------------------------------------------
(* Two engines built alike *)

\* the two engines were constructed with the same capital and commission
SameConstruction ==
    /\ portfolio.initial_capital = portfolio2.initial_capital
    /\ portfolio.executor.commission_rate =
          portfolio2.executor.commission_rate

-----------------------------------------------------------------------------
(* Performance metrics: src/analysis/metrics.py.  A DataFrame is the set   *)
(* of its column names and the sequence of its rows; a row carries its     *)
(* index value in the field timestamp.                                     *)

\* what a metric function gives: a float, the float nan, or an exception
Float(x) == [kind |-> "float", v |-> x]
NaN == [kind |-> "nan"]
Raised(error) == [kind |-> "raised", error |-> error]

\* Portfolio.get_performance_history
get_performance_history(p) ==
    IF p.equity_curve = <<>> THEN EmptyFrame
    ELSE [columns |-> {"total_value", "cash", "position_value",
                       "realized_pnl", "unrealized_pnl"},
          rows |-> p.equity_curve]

\* Portfolio.get_trade_history
get_trade_history(p) ==
    IF p.trades = <<>> THEN EmptyFrame
    ELSE [columns |-> {"symbol", "side", "quantity", "price", "commission",
                       "total"},
          rows |-> [k \in 1..Len(p.trades) |->
                      [timestamp |-> p.trades[k].timestamp,
                       symbol |-> p.trades[k].symbol,
                       side |-> p.trades[k].side,
                       quantity |-> p.trades[k].quantity,
                       price |-> p.trades[k].price,
                       commission |-> p.trades[k].commission,
                       total |-> RMul(R(p.trades[k].quantity),
                                      p.trades[k].price)]]]

\* DataFrame.sort_index(): the rows by index value, rows of equal index in
\* the order they had
RECURSIVE SortIndex(_)
SortIndex(rows) ==
    IF rows = <<>> THEN <<>>
    ELSE LET n == Len(rows)
             rest == SortIndex(SubSeq(rows, 1, n - 1))
             k == Cardinality({i \in 1..(n - 1) :
                                 rest[i].timestamp <= rows[n].timestamp})
         IN  SubSeq(rest, 1, k) \o <<rows[n]>> \o SubSeq(rest, k + 1, n - 1)

\* Series.unique(): the values in order of first appearance
RECURSIVE Unique(_)
Unique(q) ==
    IF q = <<>> THEN <<>>
    ELSE LET u == Unique(SubSeq(q, 1, Len(q) - 1))
         IN  IF \E i \in 1..Len(u) : u[i] = q[Len(q)] THEN u
             ELSE Append(u, q[Len(q)])

\* trades[trades['symbol'] == symbol].copy().sort_index()
SymbolTrades(trades, symbol) ==
    SortIndex(SelectSeq(trades.rows, LAMBDA r : r.symbol = symbol))

\* Mutant of MatchSell: a sell is matched against the newest lot first
RECURSIVE MatchSell_lifo(_, _, _, _)
MatchSell_lifo(buy_stack, remaining_sell_qty, sell_price, pnls) ==
    IF remaining_sell_qty > 0 /\ Len(buy_stack) > 0
    THEN LET n == Len(buy_stack)
             buy == buy_stack[n]
             matched_qty == IF buy.quantity <= remaining_sell_qty
                            THEN buy.quantity ELSE remaining_sell_qty
             pnl == RMul(RSub(sell_price, buy.price), R(matched_qty))
             left == buy.quantity - matched_qty
             stack == IF left = 0 THEN SubSeq(buy_stack, 1, n - 1)
                      ELSE Append(SubSeq(buy_stack, 1, n - 1),
                                  [buy EXCEPT !.quantity = left])
         IN  MatchSell_lifo(stack, remaining_sell_qty - matched_qty,
                            sell_price, Append(pnls, pnl))
    ELSE [buy_stack |-> buy_stack, pnls |-> pnls]

\* win_rate / profit_factor: the while loop that matches one sell against
\* the open buy lots, buy_stack[0] first; pnls collects the pnl of every
\* match
RECURSIVE MatchSell(_, _, _, _)
MatchSell(buy_stack, remaining_sell_qty, sell_price, pnls) ==
    IF remaining_sell_qty > 0 /\ Len(buy_stack) > 0
    THEN LET buy == buy_stack[1]
             matched_qty == IF buy.quantity <= remaining_sell_qty
                            THEN buy.quantity ELSE remaining_sell_qty
             pnl == RMul(RSub(sell_price, buy.price), R(matched_qty))
             left == buy.quantity - matched_qty
             stack == IF left = 0 THEN Tail(buy_stack)
                      ELSE <<[buy EXCEPT !.quantity = left]>>
                              \o Tail(buy_stack)
         IN  MatchSell(stack, remaining_sell_qty - matched_qty, sell_price,
                       Append(pnls, pnl))
    ELSE [buy_stack |-> buy_stack, pnls |-> pnls]

\* win_rate / profit_factor: "for idx, trade in symbol_trades.iterrows()"
RECURSIVE MatchRows(_, _, _)
MatchRows(rows, buy_stack, pnls) ==
    IF rows = <<>> THEN pnls
    ELSE LET trade == Head(rows)
         IN  IF trade.side = "buy"
             THEN MatchRows(Tail(rows),
                            Append(buy_stack, [price |-> trade.price,
                                               quantity |-> trade.quantity]),
                            pnls)
             ELSE IF trade.side = "sell"
             THEN LET m == MatchSell(buy_stack, trade.quantity, trade.price,
                                     pnls)
                  IN  MatchRows(Tail(rows), m.buy_stack, m.pnls)
             ELSE MatchRows(Tail(rows), buy_stack, pnls)

\* win_rate / profit_factor: "for symbol in symbols", each symbol with a
\* buy_stack of its own; the pnl of every match made, in the order made
RECURSIVE RoundTripPnls(_, _)
RoundTripPnls(trades, symbols) ==
    IF symbols = <<>> THEN <<>>
    ELSE MatchRows(SymbolTrades(trades, Head(symbols)), <<>>, <<>>)
            \o RoundTripPnls(trades, Tail(symbols))

\* trades['symbol'].unique()
TradedSymbols(trades) ==
    Unique([k \in 1..Len(trades.rows) |-> trades.rows[k].symbol])

\* sum of a sequence of floats
RECURSIVE RSumSeq(_)
RSumSeq(q) == IF q = <<>> THEN RZero ELSE RAdd(Head(q), RSumSeq(Tail(q)))

\* Mutant of win_rate: a round-trip that breaks even counts as a win
win_rate_zero_is_win(trades) ==
    IF Len(trades.rows) = 0 THEN Float(RZero)
    ELSE LET pnls == RoundTripPnls(trades, TradedSymbols(trades))
             winning_trades ==
                 Cardinality({k \in 1..Len(pnls) : RLe(RZero, pnls[k])})
             total_roundtrips == Len(pnls)
         IN  IF total_roundtrips = 0 THEN Float(RZero)
             ELSE Float(Rat(winning_trades, total_roundtrips))

\* PerformanceMetrics.win_rate
win_rate(trades) ==
    IF Len(trades.rows) = 0 THEN Float(RZero)
    ELSE LET pnls == RoundTripPnls(trades, TradedSymbols(trades))
             winning_trades ==
                 Cardinality({k \in 1..Len(pnls) : RLt(RZero, pnls[k])})
             total_roundtrips == Len(pnls)
         IN  IF total_roundtrips = 0 THEN Float(RZero)
             ELSE Float(Rat(winning_trades, total_roundtrips))

\* Mutant of profit_factor: without losses the factor is 0.0
profit_factor_no_loss_zero(trades) ==
    IF Len(trades.rows) = 0 THEN Float(RZero)
    ELSE LET pnls == RoundTripPnls(trades, TradedSymbols(trades))
             gross_profit ==
                 RSumSeq(SelectSeq(pnls, LAMBDA x : RLt(RZero, x)))
             gross_loss ==
                 RSumSeq([k \in 1..Len(pnls) |->
                            IF RLt(RZero, pnls[k]) THEN RZero
                            ELSE RAbs(pnls[k])])
         IN  IF gross_loss = RZero THEN Float(RZero)
             ELSE Float(RDiv(gross_profit, gross_loss))

\* PerformanceMetrics.profit_factor
profit_factor(trades) ==
    IF Len(trades.rows) = 0 THEN Float(RZero)
    ELSE LET pnls == RoundTripPnls(trades, TradedSymbols(trades))
             gross_profit ==
                 RSumSeq(SelectSeq(pnls, LAMBDA x : RLt(RZero, x)))
             gross_loss ==
                 RSumSeq([k \in 1..Len(pnls) |->
                            IF RLt(RZero, pnls[k]) THEN RZero
                            ELSE RAbs(pnls[k])])
         IN  IF gross_loss = RZero
             THEN IF RLt(RZero, gross_profit) THEN Float(gross_profit)
                  ELSE Float(RZero)
             ELSE Float(RDiv(gross_profit, gross_loss))

\* equity_curve['total_value'] as the sequence of its values
TotalValues(equity_curve) ==
    [k \in 1..Len(equity_curve.rows) |-> equity_curve.rows[k].total_value]

\* PerformanceMetrics.calculate_returns: Series.pct_change(), whose first
\* element is nan
calculate_returns(equity_curve) ==
    LET values == TotalValues(equity_curve)
    IN  [k \in 1..Len(values) |->
           IF k = 1 THEN NaN
           ELSE Float(RDiv(RSub(values[k], values[k - 1]), values[k - 1]))]

\* the values of a Series that are not nan, which is all that mean() and
\* std() look at
NotNa(series) ==
    LET kept == SelectSeq(series, LAMBDA x : x.kind = "float")
    IN  [k \in 1..Len(kept) |-> kept[k].v]

\* mean and sample variance (ddof = 1) of a non-empty sequence of floats
Mean(q) == RDiv(RSumSeq(q), R(Len(q)))
Variance(q) ==
    RDiv(RSumSeq([k \in 1..Len(q) |->
                    RMul(RSub(q[k], Mean(q)), RSub(q[k], Mean(q)))]),
         R(Len(q) - 1))

\* PerformanceMetrics.total_return
total_return(equity_curve) ==
    IF Len(equity_curve.rows) = 0 THEN Float(RZero)
    ELSE IF "total_value" \notin equity_curve.columns THEN Raised("KeyError")
    ELSE LET values == TotalValues(equity_curve)
             initial_value == values[1]
             final_value == values[Len(values)]
         IN  Float(RDiv(RSub(final_value, initial_value), initial_value))

\* PerformanceMetrics.annualized_return; the power is kept as its base and
\* its exponent: the value is base ** exponent - 1
annualized_return(equity_curve, periods_per_year) ==
    IF Len(equity_curve.rows) = 0 THEN Float(RZero)
    ELSE LET total_ret == total_return(equity_curve)
             num_periods == Len(equity_curve.rows)
             years == Rat(num_periods, periods_per_year)
         IN  IF total_ret.kind = "raised" THEN total_ret
             ELSE [kind |-> "power_minus_one",
                   base |-> RAdd(R(1), total_ret.v),
                   exponent |-> RDiv(R(1), years)]

\* PerformanceMetrics.volatility; the value is the square root of
\* variance * periods_per_year
volatility(equity_curve, periods_per_year) ==
    IF "total_value" \notin equity_curve.columns THEN Raised("KeyError")
    ELSE LET returns == calculate_returns(equity_curve)
         IN  IF Len(returns) < 2 THEN Float(RZero)
             ELSE IF Len(NotNa(returns)) < 2 THEN NaN
             ELSE [kind |-> "sqrt",
                   square |-> RMul(Variance(NotNa(returns)),
                                   R(periods_per_year))]

\* PerformanceMetrics.sharpe_ratio; the value of the last branch is
\* sqrt(periods_per_year) * mean / sqrt(variance).  A std_dev of nan
\* passes both tests of the threshold and makes the quotient nan.
sharpe_ratio(equity_curve, risk_free_rate, periods_per_year) ==
    IF "total_value" \notin equity_curve.columns THEN Raised("KeyError")
    ELSE LET returns == calculate_returns(equity_curve)
             rf == RDiv(risk_free_rate, R(periods_per_year))
             observed == NotNa(returns)
             excess_returns ==
                 [k \in 1..Len(observed) |-> RSub(observed[k], rf)]
         IN  IF Len(returns) < 2 THEN Float(RZero)
             ELSE IF Len(excess_returns) < 2 THEN NaN
             ELSE IF Variance(excess_returns) = RZero THEN Float(RZero)
             ELSE [kind |-> "sharpe",
                   periods_per_year |-> periods_per_year,
                   mean |-> Mean(excess_returns),
                   variance |-> Variance(excess_returns)]

\* values.cummax()
CumMax(values) ==
    [k \in 1..Len(values) |->
       CHOOSE m \in {values[i] : i \in 1..k} :
          \A i \in 1..k : RLe(values[i], m)]

\* Series.min() of a non-empty sequence of floats
RMin(q) ==
    CHOOSE m \in {q[i] : i \in 1..Len(q)} : \A i \in 1..Len(q) : RLe(m, q[i])

\* Mutant of LongestRun: the counter is never reset
RECURSIVE LongestRun_no_reset(_, _, _)
LongestRun_no_reset(flags, max_duration, current_duration) ==
    IF flags = <<>> THEN max_duration
    ELSE IF Head(flags)
    THEN LongestRun_no_reset(Tail(flags),
            IF max_duration >= current_duration + 1 THEN max_duration
            ELSE current_duration + 1,
            current_duration + 1)
    ELSE LongestRun_no_reset(Tail(flags), max_duration, current_duration)

\* max_drawdown: "for is_dd in drawdown_periods"
RECURSIVE LongestRun(_, _, _)
LongestRun(flags, max_duration, current_duration) ==
    IF flags = <<>> THEN max_duration
    ELSE IF Head(flags)
    THEN LongestRun(Tail(flags),
            IF max_duration >= current_duration + 1 THEN max_duration
            ELSE current_duration + 1,
            current_duration + 1)
    ELSE LongestRun(Tail(flags), max_duration, 0)

\* PerformanceMetrics.max_drawdown
max_drawdown(equity_curve) ==
    IF Len(equity_curve.rows) = 0
    THEN [kind |-> "dict", max_drawdown |-> Float(RZero),
          max_drawdown_pct |-> Float(RZero), duration |-> 0]
    ELSE IF "total_value" \notin equity_curve.columns THEN Raised("KeyError")
    ELSE LET values == TotalValues(equity_curve)
             cummax == CumMax(values)
             drawdown == [k \in 1..Len(values) |->
                            RSub(values[k], cummax[k])]
             drawdown_pct == [k \in 1..Len(values) |->
                                RDiv(drawdown[k], cummax[k])]
             max_dd == RMin(drawdown)
             max_dd_pct == RMin(drawdown_pct)
             is_drawdown == [k \in 1..Len(values) |->
                               RLt(drawdown[k], RZero)]
         IN  [kind |-> "dict", max_drawdown |-> Float(RAbs(max_dd)),
              max_drawdown_pct |-> Float(RAbs(max_dd_pct)),
              duration |-> LongestRun(is_drawdown, 0, 0)]

\* the default arguments of sharpe_ratio, volatility, annualized_return
\* and calculate_all_metrics
DefaultRiskFreeRate == Rat(2, 100)
DefaultPeriodsPerYear == 252

\* PerformanceMetrics.calculate_all_metrics: the dict, or the exception of
\* the first call that raises
calculate_all_metrics(equity_curve, trades, risk_free_rate, periods_per_year) ==
    LET tr == total_return(equity_curve)
        ar == annualized_return(equity_curve, periods_per_year)
        vol == volatility(equity_curve, periods_per_year)
        sr == sharpe_ratio(equity_curve, risk_free_rate, periods_per_year)
        dd == max_drawdown(equity_curve)
    IN  IF tr.kind = "raised" THEN tr
        ELSE IF ar.kind = "raised" THEN ar
        ELSE IF vol.kind = "raised" THEN vol
        ELSE IF sr.kind = "raised" THEN sr
        ELSE IF dd.kind = "raised" THEN dd
        ELSE [kind |-> "dict", total_return |-> tr,
              annualized_return |-> ar, volatility |-> vol,
              sharpe_ratio |-> sr, max_drawdown |-> dd.max_drawdown,
              max_drawdown_pct |-> dd.max_drawdown_pct,
              duration |-> dd.duration,
              total_trades |-> Len(trades.rows),
              win_rate |-> win_rate(trades),
              profit_factor |-> profit_factor(trades),
              final |-> IF Len(equity_curve.rows) > 0
                        THEN <<[initial_capital |->
                                   equity_curve.rows[1].total_value,
                                final_value |->
                                   Last(equity_curve.rows).total_value,
                                final_cash |->
                                   Last(equity_curve.rows).cash]>>
                        ELSE NoneV]

-----------------------------------------------------------------------------
(* An analyst who holds a trade history and an equity curve and calls the  *)
(* metric functions on them                                                *)

\* rows of the longest trade history, periods of the longest equity curve
MaxTrades == 3
MaxPeriods == 4

TradeColumns == {"symbol", "side", "quantity", "price", "commission", "total"}
EquityColumns ==
    {"total_value", "cash", "position_value", "realized_pnl",
     "unrealized_pnl"}

\* one row of a trade history
TradeRow(timestamp, symbol, side, quantity, price) ==
    [timestamp |-> timestamp, symbol |-> symbol, side |-> side,
     quantity |-> quantity, price |-> price, commission |-> RZero,
     total |-> RMul(R(quantity), price)]

\* the trades a history may hold, before they are given a timestamp
InTrades ==
    [symbol : {"A"}, side : OrderSide, quantity : {1, 2},
     price : {R(1), R(2)}]
    \cup [symbol : {"B"}, side : OrderSide, quantity : {1}, price : {R(1)}]

\* the history of the trades q made at the timestamps 1, 2, ...
TradeFrame(q) ==
    [columns |-> TradeColumns,
     rows |-> [k \in 1..Len(q) |->
                 TradeRow(k, q[k].symbol, q[k].side, q[k].quantity,
                          q[k].price)]]

\* buys 10@10 and 10@12, then a sell 15@11
FifoScenario ==
    [columns |-> TradeColumns,
     rows |-> <<TradeRow(1, "A", BUY, 10, R(10)),
                TradeRow(2, "A", BUY, 10, R(12)),
                TradeRow(3, "A", SELL, 15, R(11))>>]

\* a history whose rows are not in index order: the sell row comes first
UnsortedScenario ==
    [columns |-> TradeColumns,
     rows |-> <<TradeRow(2, "A", SELL, 1, R(2)),
                TradeRow(1, "A", BUY, 1, R(1))>>]

InTradeFrames ==
    {TradeFrame(q) : q \in UNION {[1..n -> InTrades] : n \in 1..MaxTrades}}
    \cup {FifoScenario, UnsortedScenario}

\* the equity curve with the given total values at the timestamps 1, 2, ...
EquityFrame(values) ==
    [columns |-> EquityColumns,
     rows |-> [k \in 1..Len(values) |->
                 [timestamp |-> k, total_value |-> R(values[k]),
                  cash |-> R(values[k]), position_value |-> RZero,
                  realized_pnl |-> RZero, unrealized_pnl |-> RZero]]]

InEquityFrames ==
    {EquityFrame(v) : v \in UNION {[1..n -> {1, 2, 3}] : n \in 0..MaxPeriods}}
    \cup {EquityFrame(<<100, 110, 120, 130>>)}

\* a ledger, and an analyst who holds either the two histories of the
\* ledger, or a trade history, or an equity curve
MetricsInit ==
    /\ init_args = <<R(5), RZero>>
    /\ portfolio = Portfolio(R(5), RZero)
    /\ portfolio2 = Portfolio(R(5), RZero)
    /\ client_order = NoneV
    /\ \/ /\ trades_df = get_trade_history(portfolio)
          /\ equity_df = get_performance_history(portfolio)
       \/ /\ trades_df \in InTradeFrames
          /\ equity_df = get_performance_history(portfolio)
       \/ /\ trades_df = get_trade_history(portfolio)
          /\ equity_df \in InEquityFrames
    /\ metrics = [fn |-> "none", value |-> NoneV]
    /\ data = EmptyDict
    /\ strategy = NoneV
    /\ current_date = NoneV
    /\ pc = "idle"
    /\ all_dates = <<>>
    /\ date_idx = 0
    /\ current_data = EmptyDict
    /\ signals = <<>>
    /\ run_start_len = 0
    /\ runs = 0
    /\ emitted = 0
    /\ last_call = NoCall
    /\ prev_call = NoCall
    /\ ncalls = 0

\* the bookkeeping of one call of a metric function
CallMetric(fn, value) ==
    /\ metrics' = [fn |-> fn, value |-> value]
    /\ UNCHANGED <<portfolio, portfolio2, engine_vars, last_call, prev_call,
                   ncalls, client_order, init_args, trades_df, equity_df>>

CallTotalReturn == CallMetric("total_return", total_return(equity_df))

CallAnnualizedReturn ==
    CallMetric("annualized_return",
               annualized_return(equity_df, DefaultPeriodsPerYear))

CallVolatility ==
    CallMetric("volatility", volatility(equity_df, DefaultPeriodsPerYear))

CallSharpeRatio ==
    CallMetric("sharpe_ratio",
               sharpe_ratio(equity_df, DefaultRiskFreeRate,
                            DefaultPeriodsPerYear))

CallMaxDrawdown == CallMetric("max_drawdown", max_drawdown(equity_df))

CallWinRate == CallMetric("win_rate", win_rate(trades_df))

CallProfitFactor == CallMetric("profit_factor", profit_factor(trades_df))

CallCalculateAllMetrics ==
    CallMetric("calculate_all_metrics",
               calculate_all_metrics(equity_df, trades_df,
                                     DefaultRiskFreeRate,
                                     DefaultPeriodsPerYear))

MetricsNext ==
    \/ CallTotalReturn
    \/ CallAnnualizedReturn
    \/ CallVolatility
    \/ CallSharpeRatio
    \/ CallMaxDrawdown
    \/ CallWinRate
    \/ CallProfitFactor
    \/ CallCalculateAllMetrics

MetricsSpec == MetricsInit /\ [][MetricsNext]_vars

-----------------------------------------------------------------------------
(* Round-trips by FIFO, stated unit by unit: every unit bought waits in a  *)
(* queue, a sell takes as many units from the front as it can, and the     *)
(* units that went from one buy row to one sell row make one round-trip    *)

\* the <<buy row, sell row>> of every unit matched from row k on, rows
\* being the trades of one symbol in timestamp order and queue the buy row
\* of every unit still open
RECURSIVE UnitPairs(_, _, _)
UnitPairs(rows, k, queue) ==
    IF k > Len(rows) THEN <<>>
    ELSE IF rows[k].side = BUY
    THEN UnitPairs(rows, k + 1,
                   queue \o [u \in 1..rows[k].quantity |-> k])
    ELSE LET n == IF rows[k].quantity <= Len(queue) THEN rows[k].quantity
                  ELSE Len(queue)
         IN  [u \in 1..n |-> <<queue[u], k>>]
                \o UnitPairs(rows, k + 1, SubSeq(queue, n + 1, Len(queue)))

\* the round-trips of the trades of one symbol
SymbolRoundTrips(symbol, rows) ==
    LET units == UnitPairs(rows, 1, <<>>)
        matched(pr) == Cardinality({i \in 1..Len(units) : units[i] = pr})
    IN  {[symbol |-> symbol, buy |-> pr[1], sell |-> pr[2],
          quantity |-> matched(pr),
          pnl |-> RMul(RSub(rows[pr[2]].price, rows[pr[1]].price),
                       R(matched(pr)))] :
            pr \in {units[i] : i \in 1..Len(units)}}

\* the round-trips of a trade history
RoundTrips(trades) ==
    UNION {SymbolRoundTrips(sym, SymbolTrades(trades, sym)) :
             sym \in {trades.rows[k].symbol : k \in 1..Len(trades.rows)}}

Wins(trades) == {t \in RoundTrips(trades) : RLt(RZero, t.pnl)}

GrossProfit(trades) ==
    RSum([t \in Wins(trades) |-> t.pnl], Wins(trades))

GrossLoss(trades) ==
    LET losses == RoundTrips(trades) \ Wins(trades)
    IN  RSum([t \in losses |-> RAbs(t.pnl)], losses)

\* C22: win_rate and profit_factor match by FIFO: per symbol, in
\* timestamp order, each sell consumes the oldest open buy lot first and
\* splits a lot it does not use up, and each (lot, matched quantity) pair
\* is one round-trip with pnl (sell price - lot price) * matched quantity;
\* buys 10@10, 10@12 and a sell 15@11 give +10 and -5, win_rate 0.5 and
\* profit_factor 2.0
C22_FifoLotMatching ==
    LET pnls == RoundTripPnls(trades_df, TradedSymbols(trades_df))
        trips == RoundTrips(trades_df)
    IN  /\ Len(pnls) = Cardinality(trips)
        /\ \A t \in trips :
              Cardinality({k \in 1..Len(pnls) : pnls[k] = t.pnl})
                 = Cardinality({u \in trips : u.pnl = t.pnl})
        /\ metrics.fn = "win_rate" =>
              /\ metrics.value.kind = "float"
              /\ RMul(metrics.value.v, R(Cardinality(trips)))
                    = R(Cardinality(Wins(trades_df)))
        /\ metrics.fn = "profit_factor" =>
              /\ metrics.value.kind = "float"
              /\ RMul(metrics.value.v, GrossLoss(trades_df))
                    = IF GrossLoss(trades_df) = RZero THEN RZero
                      ELSE GrossProfit(trades_df)
        /\ trades_df = FifoScenario =>
              /\ pnls = <<R(10), R(-5)>>
              /\ metrics.fn = "win_rate" => metrics.value = Float(Rat(1, 2))
              /\ metrics.fn = "profit_factor" => metrics.value = Float(R(2))

\* profit_factor was called on the history with buys 10@10 and 10@12 and
\* the sell 15@11 that splits the second lot
C22_Witness ==
    /\ metrics.fn = "profit_factor"
    /\ trades_df = FifoScenario
    /\ \E t \in RoundTrips(trades_df) : t.buy = 2 /\ t.quantity = 5

\* C23: win_rate is (round-trips with pnl > 0) / (all round-trips), a
\* round-trip with pnl = 0 counting in the total but not as a win, and is
\* 0.0 when there is no round-trip
C23_WinRate ==
    metrics.fn = "win_rate" =>
       metrics.value =
          IF RoundTrips(trades_df) = {} THEN Float(RZero)
          ELSE Float(Rat(Cardinality(Wins(trades_df)),
                         Cardinality(RoundTrips(trades_df))))

\* win_rate was called on a history with a winning round-trip and one that
\* breaks even
C23_Witness ==
    /\ metrics.fn = "win_rate"
    /\ \E t \in RoundTrips(trades_df) : t.pnl = RZero
    /\ \E t \in RoundTrips(trades_df) : RLt(RZero, t.pnl)
    /\ metrics.value = Float(Rat(1, 2))

\* win_rate was called on a history of sells that match no buy
C23_WitnessUnmatched ==
    /\ metrics.fn = "win_rate"
    /\ Len(trades_df.rows) > 0
    /\ \A k \in 1..Len(trades_df.rows) : trades_df.rows[k].side = SELL
    /\ metrics.value = Float(RZero)

\* C24: profit_factor is grossProfit / grossLoss over the FIFO
\* round-trips when grossLoss > 0; when grossLoss = 0 it is grossProfit if
\* that is positive and 0 otherwise; it is a float for every trade log
C24_ProfitFactor ==
    metrics.fn = "profit_factor" =>
       metrics.value =
          IF RLt(RZero, GrossLoss(trades_df))
          THEN Float(RDiv(GrossProfit(trades_df), GrossLoss(trades_df)))
          ELSE IF RLt(RZero, GrossProfit(trades_df))
          THEN Float(GrossProfit(trades_df))
          ELSE Float(RZero)

\* profit_factor was called on a history with profit and no loss
C24_Witness ==
    /\ metrics.fn = "profit_factor"
    /\ GrossLoss(trades_df) = RZero
    /\ RLt(RZero, GrossProfit(trades_df))
    /\ metrics.value = Float(GrossProfit(trades_df))

\* the largest of the first k total values of the curve
RunningMaximum(values, k) ==
    CHOOSE m \in {values[i] : i \in 1..k} : \A i \in 1..k : RLe(values[i], m)

\* the intervals of consecutive periods whose value is strictly below the
\* running maximum
DrawdownRuns(values) ==
    {iv \in (1..Len(values)) \X (1..Len(values)) :
        /\ iv[1] <= iv[2]
        /\ \A k \in iv[1]..iv[2] : RLt(values[k], RunningMaximum(values, k))}

NonDecreasing(values) ==
    \A k \in 1..(Len(values) - 1) : RLe(values[k], values[k + 1])

\* C25: max_drawdown reports the largest (running maximum - value) over the
\* periods, and as duration the length of the longest run of consecutive
\* periods strictly below the running maximum; both are 0 for every
\* non-decreasing curve, [100, 110, 120, 130] included
C25_MaxDrawdown ==
    (metrics.fn = "max_drawdown" /\ Len(equity_df.rows) > 0) =>
       LET values == TotalValues(equity_df)
           n == Len(values)
       IN  /\ metrics.value.kind = "dict"
           /\ \E k \in 1..n :
                 metrics.value.max_drawdown =
                    Float(RSub(RunningMaximum(values, k), values[k]))
           /\ \A k \in 1..n :
                 RLe(RSub(RunningMaximum(values, k), values[k]),
                     metrics.value.max_drawdown.v)
           /\ \A iv \in DrawdownRuns(values) :
                 iv[2] - iv[1] + 1 <= metrics.value.duration
           /\ \/ /\ DrawdownRuns(values) = {}
                 /\ metrics.value.duration = 0
              \/ \E iv \in DrawdownRuns(values) :
                    iv[2] - iv[1] + 1 = metrics.value.duration
           /\ NonDecreasing(values) =>
                 /\ metrics.value.max_drawdown = Float(RZero)
                 /\ metrics.value.duration = 0

\* max_drawdown was called on a curve with two separate drawdown runs of
\* one period each
C25_Witness ==
    /\ metrics.fn = "max_drawdown"
    /\ Len(equity_df.rows) = 4
    /\ <<2, 2>> \in DrawdownRuns(TotalValues(equity_df))
    /\ <<4, 4>> \in DrawdownRuns(TotalValues(equity_df))
    /\ <<3, 3>> \notin DrawdownRuns(TotalValues(equity_df))
    /\ metrics.value.duration = 1

\* max_drawdown was called on the strictly increasing curve
C25_WitnessIncreasing ==
    /\ metrics.fn = "max_drawdown"
    /\ equity_df = EquityFrame(<<100, 110, 120, 130>>)
    /\ metrics.value.max_drawdown = Float(RZero)
    /\ metrics.value.duration = 0

\* C26: sharpe_ratio returns exactly 0.0 for every equity curve with 0, 1
\* or 2 snapshots (fewer than 2 return observations)
C26_SharpeZeroOnShortCurve ==
    (metrics.fn = "sharpe_ratio" /\ Len(equity_df.rows) <= 2) =>
       metrics.value = Float(RZero)

\* the same statement for the curves that carry a total_value column
C26_SharpeZeroOnShortCurveWithColumn ==
    (/\ metrics.fn = "sharpe_ratio"
     /\ "total_value" \in equity_df.columns
     /\ Len(equity_df.rows) <= 2) =>
       metrics.value = Float(RZero)

\* sharpe_ratio was called on a curve of two snapshots and returned nan
C26_NanOnTwoSnapshots ==
    /\ metrics.fn = "sharpe_ratio"
    /\ Len(equity_df.rows) = 2
    /\ metrics.value = NaN

\* the analyst holds the two histories of a ledger with no snapshot and no
\* fill
EmptyLedgerHistories ==
    /\ portfolio.equity_curve = <<>>
    /\ portfolio.trades = <<>>
    /\ equity_df = get_performance_history(portfolio)
    /\ trades_df = get_trade_history(portfolio)

\* C27: on the histories of a ledger with no snapshot and no fill every
\* metric function returns a value instead of raising
C27_NeutralDefaultsOnEmptyInput ==
    (metrics.fn # "none" /\ EmptyLedgerHistories) =>
       metrics.value.kind # "raised"

\* the metric functions that do return their default on these histories
C27_DefaultsReturned ==
    (/\ EmptyLedgerHistories
     /\ metrics.fn \in {"total_return", "annualized_return", "win_rate",
                        "profit_factor"}) =>
       metrics.value = Float(RZero)

\* volatility, sharpe_ratio or calculate_all_metrics raised KeyError on them
C27_KeyErrorOnEmptyCurve ==
    /\ EmptyLedgerHistories
    /\ metrics.fn \in {"volatility", "sharpe_ratio", "calculate_all_metrics"}
    /\ metrics.value = Raised("KeyError")

\* a snapshot taken by run() while a position is open in a symbol that has
\* no bar at the snapshot's timestamp, with no cash left
UnpricedAndNoCash(p, k) ==
    /\ p.equity_curve[k].cash = RZero
    /\ p.equity_curve[k].position_value = RZero
    /\ k = Len(p.equity_curve)
    /\ DOMAIN p.positions # {}

HeldQuantity(p, symbol) ==
    IF symbol \in DOMAIN p.positions THEN p.positions[symbol] ELSE 0

\* the commission of the order of call c at the rate of p
CallCommission(p, c) == RSub(CallCost(p, c), RMul(R(c.order.quantity), c.price))

\* the positions and average costs of the symbols other than symbol are the
\* same in p and q
OthersUnchanged(p, q, symbol) ==
    /\ DOMAIN p.positions \ {symbol} = DOMAIN q.positions \ {symbol}
    /\ DOMAIN p.avg_prices \ {symbol} = DOMAIN q.avg_prices \ {symbol}
    /\ \A s \in DOMAIN p.positions \ {symbol} :
          /\ p.positions[s] = q.positions[s]
          /\ p.avg_prices[s] = q.avg_prices[s]

\* C29: a successful buy takes quantity*price + commission from cash, adds
\* quantity to the position and sets the average cost to
\* (old_qty*old_avg + qty*price)/(old_qty + qty), which is price for a first
\* buy (the commission is not part of the cost basis); the other symbols
\* and realized_pnl are unchanged
C29_BuyEffects ==
    (IsExec(last_call, BUY) /\ last_call.result) =>
       LET pre == last_call.pre
           symbol == last_call.order.symbol
           qty == last_call.order.quantity
           old_qty == HeldQuantity(pre, symbol)
       IN  /\ portfolio.cash = RSub(pre.cash, CallCost(pre, last_call))
           /\ symbol \in DOMAIN portfolio.positions
           /\ portfolio.positions[symbol] = old_qty + qty
           /\ symbol \in DOMAIN portfolio.avg_prices
           /\ IF old_qty = 0
              THEN portfolio.avg_prices[symbol] = last_call.price
              ELSE RMul(portfolio.avg_prices[symbol], R(old_qty + qty)) =
                      RAdd(RMul(R(old_qty), pre.avg_prices[symbol]),
                           RMul(R(qty), last_call.price))
           /\ OthersUnchanged(portfolio, pre, symbol)
           /\ portfolio.realized_pnl = pre.realized_pnl

\* a buy with a commission has added to a position held at another
\* average cost while a second symbol is held
C29_Witness ==
    /\ IsExec(last_call, BUY) /\ last_call.result
    /\ last_call.order.symbol \in DOMAIN last_call.pre.positions
    /\ last_call.pre.avg_prices[last_call.order.symbol] # last_call.price
    /\ DOMAIN last_call.pre.positions # {last_call.order.symbol}
    /\ RLt(RZero, CallCommission(last_call.pre, last_call))

\* a first buy of a symbol, with a commission
C29_WitnessFirstBuy ==
    /\ IsExec(last_call, BUY) /\ last_call.result
    /\ last_call.order.symbol \notin DOMAIN last_call.pre.positions
    /\ RLt(RZero, CallCommission(last_call.pre, last_call))
    /\ portfolio.avg_prices[last_call.order.symbol] = last_call.price

\* C30: a successful sell adds (price - avg_cost)*quantity - commission to
\* realized_pnl and quantity*price - commission to cash and takes quantity
\* from the position; a position that stays open keeps its average cost
C30_SellEffects ==
    (IsExec(last_call, SELL) /\ last_call.result) =>
       LET pre == last_call.pre
           symbol == last_call.order.symbol
           qty == last_call.order.quantity
           commission == CallCommission(pre, last_call)
       IN  /\ symbol \in DOMAIN pre.positions
           /\ portfolio.realized_pnl =
                 RAdd(pre.realized_pnl,
                      RSub(RMul(RSub(last_call.price, pre.avg_prices[symbol]),
                                R(qty)),
                           commission))
           /\ portfolio.cash =
                 RAdd(pre.cash,
                      RSub(RMul(R(qty), last_call.price), commission))
           /\ HeldQuantity(portfolio, symbol) = pre.positions[symbol] - qty
           /\ symbol \in DOMAIN portfolio.positions =>
                 portfolio.avg_prices[symbol] = pre.avg_prices[symbol]

\* a partial sell with a commission at a price other than the average cost
C30_Witness ==
    /\ IsExec(last_call, SELL) /\ last_call.result
    /\ last_call.order.symbol \in DOMAIN portfolio.positions
    /\ last_call.pre.avg_prices[last_call.order.symbol] # last_call.price
    /\ RLt(RZero, CallCommission(last_call.pre, last_call))

\* C31: the positions map and the average-cost map hold the same symbols,
\* every quantity held is positive, and a sell that brings the quantity to
\* zero removes both entries
C31_PositionsAndAverageCostsAligned ==
    /\ DOMAIN portfolio.positions = DOMAIN portfolio.avg_prices
    /\ \A s \in DOMAIN portfolio.positions : portfolio.positions[s] > 0
    /\ (/\ IsExec(last_call, SELL) /\ last_call.result
        /\ last_call.pre.positions[last_call.order.symbol]
              = last_call.order.quantity)
       => /\ last_call.order.symbol \notin DOMAIN portfolio.positions
          /\ last_call.order.symbol \notin DOMAIN portfolio.avg_prices

\* a sell has closed one position while another symbol is still held
C31_Witness ==
    /\ IsExec(last_call, SELL) /\ last_call.result
    /\ last_call.pre.positions[last_call.order.symbol]
          = last_call.order.quantity
    /\ last_call.order.symbol \notin DOMAIN portfolio.avg_prices
    /\ DOMAIN portfolio.avg_prices # {}

\* the symbols held in p that have a bar at the timestamp
HeldWithBar(p, cdata, timestamp) ==
    {s \in Symbols : /\ HeldQuantity(p, s) > 0
                     /\ s \in DOMAIN cdata
                     /\ timestamp \in DOMAIN cdata[s]}

\* what symbol s adds to position_value and to unrealized_pnl at the
\* timestamp: nothing without a bar
MarkOf(p, cdata, timestamp, s) ==
    IF s \in HeldWithBar(p, cdata, timestamp)
    THEN [value |-> RMul(R(p.positions[s]), cdata[s][timestamp]),
          gain |-> RMul(RSub(cdata[s][timestamp], p.avg_prices[s]),
                        R(p.positions[s]))]
    ELSE [value |-> RZero, gain |-> RZero]

\* C32: update_positions at ts makes position_value the sum of
\* quantity*Close(ts) and unrealized_pnl the sum of
\* (Close(ts) - avg_cost)*quantity over the open positions with a bar at ts;
\* a position with no bar adds zero to both, so total_value is the cash
\* alone when no held symbol has a bar
C32_MarkToMarketOverPricedPositions ==
    last_call.op = "update_positions" =>
       LET pre == last_call.pre
           cdata == last_call.current_data
           ts == last_call.timestamp[1]
           snapshot == portfolio.equity_curve[Len(portfolio.equity_curve)]
           A == MarkOf(pre, cdata, ts, "A")
           B == MarkOf(pre, cdata, ts, "B")
       IN  /\ snapshot.timestamp = ts
           /\ snapshot.position_value = RAdd(A.value, B.value)
           /\ snapshot.unrealized_pnl = RAdd(A.gain, B.gain)
           /\ portfolio.unrealized_pnl = snapshot.unrealized_pnl
           /\ HeldWithBar(pre, cdata, ts) = {} =>
                 snapshot.total_value = pre.cash

\* a mark while one held symbol has a bar, at a price other than its
\* average cost, and another held symbol has none
C32_Witness ==
    /\ last_call.op = "update_positions"
    /\ \E s \in DOMAIN last_call.pre.positions :
          /\ s \in HeldWithBar(last_call.pre, last_call.current_data,
                                last_call.timestamp[1])
          /\ last_call.pre.positions[s] > 1
          /\ portfolio.unrealized_pnl # RZero
    /\ \E s \in DOMAIN last_call.pre.positions :
          s \notin HeldWithBar(last_call.pre, last_call.current_data,
                               last_call.timestamp[1])

\* a mark while the only held symbol has no bar: total_value is the cash
C32_WitnessCashAlone ==
    /\ last_call.op = "update_positions"
    /\ DOMAIN last_call.pre.positions # {}
    /\ HeldWithBar(last_call.pre, last_call.current_data,
                   last_call.timestamp[1]) = {}
    /\ portfolio.total_value = portfolio.cash

\* one step of the ledger, for the frame conditions of its two mutators
C33_Step ==
    /\ (ncalls' # ncalls /\ last_call'.op = "execute_order") =>
          portfolio'.equity_curve = portfolio.equity_curve
    /\ (ncalls' # ncalls /\ last_call'.op = "update_positions") =>
          /\ portfolio'.cash = portfolio.cash
          /\ portfolio'.positions = portfolio.positions
          /\ portfolio'.avg_prices = portfolio.avg_prices
          /\ portfolio'.realized_pnl = portfolio.realized_pnl
          /\ portfolio'.trades = portfolio.trades
          /\ Len(portfolio'.equity_curve) = Len(portfolio.equity_curve) + 1
    /\ portfolio'.equity_curve # portfolio.equity_curve =>
          /\ last_call'.op = "update_positions"
          /\ SubSeq(portfolio'.equity_curve, 1, Len(portfolio.equity_curve))
                = portfolio.equity_curve

\* C33: execute_order, successful or failed, never changes the equity
\* curve; update_positions never changes cash, positions, average costs,
\* realized_pnl or the trade log; update_positions is the only operation
\* that appends to the equity curve
C33_FrameConditions == [][C33_Step]_vars

\* an order was filled on a ledger that already holds a snapshot, and a
\* mark was made on a ledger that already holds a fill
C33_Witness ==
    /\ IsExec(last_call, SELL) /\ last_call.result
    /\ prev_call.op = "update_positions"
    /\ prev_call.pre.trades # <<>>
    /\ Len(portfolio.equity_curve) = 1

\* the fill that execute_order logs for the order of call c
FillMatches(f, c) ==
    /\ f.symbol = c.order.symbol
    /\ f.side = c.order.side
    /\ f.quantity = c.order.quantity
    /\ f.price = c.price

\* one step of the ledger, for the trade log
C34_Step ==
    LET old == portfolio.trades
        new == portfolio'.trades
        appended == /\ Len(new) = Len(old) + 1
                    /\ FillMatches(new[Len(new)], last_call')
    IN  /\ Len(new) >= Len(old)
        /\ SubSeq(new, 1, Len(old)) = old
        /\ (ncalls' # ncalls /\ last_call'.op = "execute_order") =>
              /\ last_call'.result <=> appended
              /\ ~last_call'.result <=> (new = old)
        /\ (ncalls' # ncalls /\ last_call'.op # "execute_order") =>
              new = old

\* C34: the trade log is append-only: execute_order returns True exactly
\* when it appended one fill with the order's symbol, side and quantity at
\* the execution price, returns False exactly when the log is unchanged,
\* and no operation modifies or removes a logged fill
C34_TradeLogAppendOnly == [][C34_Step]_vars

\* a refused order after two logged fills
C34_Witness ==
    /\ last_call.op = "execute_order" /\ ~last_call.result
    /\ Len(portfolio.trades) = 2
    /\ prev_call.op = "execute_order" /\ prev_call.result
    /\ FillMatches(portfolio.trades[2], prev_call)

\* C35: when execute_order returns False the order passed in is still
\* Pending with filled_quantity 0 and no fill price, and the executor's
\* order-id counter has not advanced
C35_RejectedOrderStaysPending ==
    (last_call.op = "execute_order" /\ ~last_call.result) =>
       /\ last_call.order.status = PENDING
       /\ last_call.order.filled_quantity = 0
       /\ last_call.order.fill_price = NoneV
       /\ portfolio.executor.next_order_id
             = last_call.pre.executor.next_order_id

\* a buy refused for lack of cash left its order Filled and took an id
C35_FilledThoughRejected ==
    /\ IsExec(last_call, BUY) /\ ~last_call.result
    /\ last_call.order.status = FILLED
    /\ portfolio.executor.next_order_id
          = last_call.pre.executor.next_order_id + 1

\* C37: cash is never negative, whatever commission rate >= 0 the engine
\* constructor accepted, rates above 1 included
C37_CashNeverNegative == RLe(RZero, portfolio.cash)

\* the same for the commission rates that do not exceed 1
C37_CashNeverNegativeUpToRateOne ==
    RLe(portfolio.executor.commission_rate, R(1)) => RLe(RZero, portfolio.cash)

\* a sell at a commission rate above 1 cost more than it brought in and
\* left the cash negative
C37_NegativeCashAfterSell ==
    /\ IsExec(last_call, SELL) /\ last_call.result
    /\ RLt(R(1), portfolio.executor.commission_rate)
    /\ RLe(RZero, last_call.pre.cash)
    /\ RLt(portfolio.cash, RZero)

\* C39: at commission rate 0, a snapshot taken at a timestamp where every
\* open position has a bar has
\* total_value - initial_capital = realized_pnl + unrealized_pnl
C39_ValueChangeIsRealizedPlusUnrealized ==
    (/\ last_call.op = "update_positions"
     /\ portfolio.executor.commission_rate = RZero
     /\ HeldWithBar(last_call.pre, last_call.current_data,
                    last_call.timestamp[1]) = DOMAIN last_call.pre.positions) =>
       LET snapshot == portfolio.equity_curve[Len(portfolio.equity_curve)]
       IN  RSub(snapshot.total_value, portfolio.initial_capital) =
              RAdd(snapshot.realized_pnl, snapshot.unrealized_pnl)

\* such a snapshot, taken after a sell at a gain, while a position bought
\* below the bar's price is open
C39_Witness ==
    /\ last_call.op = "update_positions"
    /\ portfolio.executor.commission_rate = RZero
    /\ DOMAIN last_call.pre.positions # {}
    /\ HeldWithBar(last_call.pre, last_call.current_data,
                   last_call.timestamp[1]) = DOMAIN last_call.pre.positions
    /\ RLt(RZero, portfolio.realized_pnl)
    /\ RLt(RZero, portfolio.unrealized_pnl)

\* the sum of the pnl of the FIFO round-trips that win_rate and
\* profit_factor form from the trade history of p
FifoPnl(p) ==
    LET trades == get_trade_history(p)
    IN  RSumSeq(RoundTripPnls(trades, TradedSymbols(trades)))

\* the commissions of the sells in the log of p
SellCommissions(p) ==
    RSumSeq([k \in 1..Len(p.trades) |->
               IF p.trades[k].side = SELL THEN p.trades[k].commission
               ELSE RZero])

\* C40: whenever the trade log leaves every symbol flat, the sum of the
\* FIFO round-trip pnl values over the log equals realized_pnl plus the sum
\* of the sell commissions
C40_FifoAgreesWithAverageCostWhenFlat ==
    DOMAIN portfolio.positions = {} =>
       FifoPnl(portfolio) = RAdd(portfolio.realized_pnl,
                                 SellCommissions(portfolio))

\* two lots bought at different prices were sold together with a
\* commission, leaving the ledger flat
C40_Witness ==
    /\ DOMAIN portfolio.positions = {}
    /\ Len(portfolio.trades) = 3
    /\ portfolio.trades[1].side = BUY /\ portfolio.trades[2].side = BUY
    /\ portfolio.trades[1].price # portfolio.trades[2].price
    /\ portfolio.trades[3].side = SELL
    /\ RLt(RZero, portfolio.trades[3].commission)

\* while a position is open the two numbers differ
C40_WitnessOpenDiffers ==
    /\ DOMAIN portfolio.positions # {}
    /\ portfolio.executor.commission_rate = RZero
    /\ FifoPnl(portfolio) # portfolio.realized_pnl

\* the next signal of the loop has a positive quantity and a declared order
\* type
ValidSignalNext ==
    /\ pc = "signals"
    /\ signals # <<>>
    /\ NextSignal(signals).quantity > 0
    /\ SignalOrderType(NextSignal(signals)) \in OrderType

\* one step of run() on such a signal: the loop goes on
C38_Step == ValidSignalNext => pc' # "raised_order"

\* C38: with signals of positive quantity and an order type among Market,
\* Limit, Stop and StopLimit, run() does not abort part-way through the loop
C38_RunDoesNotAbortOnDeclaredOrderTypes == [][C38_Step]_vars

-----------------------------------------------------------------------------
(* Bundled strategies: src/strategies/base.py, moving_average.py,
   momentum.py *)

MovingAverageCrossover(symbols, fast_period, slow_period, allocation) ==
    [name |-> "Moving Average Crossover", symbols |-> symbols,
     fast_period |-> fast_period, slow_period |-> slow_period,
     allocation |-> allocation,
     positions |-> [s \in {symbols[k] : k \in 1..Len(symbols)} |-> FALSE]]

RateOfChangeMomentum(symbols, period, buy_threshold, sell_threshold, allocation) ==
    [name |-> "Rate of Change Momentum", symbols |-> symbols,
     period |-> period, buy_threshold |-> buy_threshold,
     sell_threshold |-> sell_threshold, allocation |-> allocation,
     positions |-> [s \in {symbols[k] : k \in 1..Len(symbols)} |-> FALSE]]

\* int(x) for a float x: the fraction is cut off towards zero
IntOf(x) == IF x[1] >= 0 THEN x[1] \div x[2] ELSE -((-x[1]) \div x[2])

\* Strategy.calculate_position_size
calculate_position_size(price, portfolio_value, allocation) ==
    IF RLe(price, RZero) THEN 0
    ELSE IntOf(RDiv(RMul(portfolio_value, allocation), price))

\* df['Close'] as the sequence of its values in index order
CloseValues(df) ==
    LET index == Sorted(DOMAIN df)
    IN  [k \in 1..Len(index) |-> df[index[k]]]

\* df['Close'].rolling(window).mean() at row i: nan (None here) until the
\* window is full
RollingMean(close, window, i) ==
    IF i < window THEN NoneV
    ELSE Mean(SubSeq(close, i - window + 1, i))

\* RateOfChangeMomentum._calculate_roc at row i
RateOfChange(close, period, i) ==
    IF i - period < 1 THEN NoneV
    ELSE RMul(RDiv(RSub(close[i], close[i - period]), close[i - period]),
              R(100))

\* the branch generate_signals takes for one symbol: "skip" (continue),
\* "bullish" (the buy condition), "bearish" (the sell condition) or "none"
Crossing(strat, close) ==
    LET n == Len(close)
    IN  IF strat.name = "Moving Average Crossover"
        THEN IF n < strat.slow_period \/ n < 2 THEN "skip"
             ELSE LET current_fast == RollingMean(close, strat.fast_period, n)
                      current_slow == RollingMean(close, strat.slow_period, n)
                      prev_fast == RollingMean(close, strat.fast_period, n - 1)
                      prev_slow == RollingMean(close, strat.slow_period, n - 1)
                  IN  IF NoneV \in {current_fast, current_slow, prev_fast,
                                    prev_slow}
                      THEN "skip"
                      ELSE IF RLe(prev_fast, prev_slow)
                                 /\ RLt(current_slow, current_fast)
                      THEN "bullish"
                      ELSE IF RLe(prev_slow, prev_fast)
                                 /\ RLt(current_fast, current_slow)
                      THEN "bearish"
                      ELSE "none"
        ELSE IF n < strat.period + 1 \/ n < 2 THEN "skip"
             ELSE LET current_roc == RateOfChange(close, strat.period, n)
                      prev_roc == RateOfChange(close, strat.period, n - 1)
                  IN  IF NoneV \in {current_roc, prev_roc} THEN "skip"
                      ELSE IF RLe(prev_roc, strat.buy_threshold)
                                 /\ RLt(strat.buy_threshold, current_roc)
                      THEN "bullish"
                      ELSE IF RLe(strat.sell_threshold, prev_roc)
                                 /\ RLt(current_roc, strat.sell_threshold)
                      THEN "bearish"
                      ELSE "none"

\* generate_signals: "for symbol in self.symbols", with the strategy (its
\* in-position flags) and the signals collected so far
RECURSIVE SignalsFor(_, _, _, _, _)
SignalsFor(strat, symbols, cdata, p, sigs) ==
    IF symbols = <<>> THEN [strategy |-> strat, signals |-> sigs]
    ELSE LET symbol == Head(symbols)
             close == CloseValues(cdata[symbol])
             branch == IF symbol \notin DOMAIN cdata THEN "skip"
                       ELSE Crossing(strat, close)
             quantity == calculate_position_size(close[Len(close)],
                            p.total_value, strat.allocation)
             current_position == HeldQuantity(p, symbol)
         IN  IF branch = "bullish" /\ ~strat.positions[symbol] /\ quantity > 0
             THEN SignalsFor([strat EXCEPT !.positions[symbol] = TRUE],
                     Tail(symbols), cdata, p,
                     Append(sigs, [symbol |-> symbol, side |-> BUY,
                                   quantity |-> quantity]))
             ELSE IF branch = "bearish" /\ strat.positions[symbol]
                        /\ current_position > 0
             THEN SignalsFor([strat EXCEPT !.positions[symbol] = FALSE],
                     Tail(symbols), cdata, p,
                     Append(sigs, [symbol |-> symbol, side |-> SELL,
                                   quantity |-> current_position]))
             ELSE SignalsFor(strat, Tail(symbols), cdata, p, sigs)

\* MovingAverageCrossover.generate_signals and
\* RateOfChangeMomentum.generate_signals: the strategy after the call and
\* the list returned
generate_signals(strat, cdata, p) ==
    SignalsFor(strat, strat.symbols, cdata, p, <<>>)

-----------------------------------------------------------------------------
(* An engine bound to a bundled strategy *)

\* number of bars of the series loaded
MaxBars == 5

\* Close series for A over the timestamps 1..MaxBars
InBars == [1..MaxBars -> {R(1), R(2), R(3)}]

\* the strategies bound: short windows, all or half of the portfolio per
\* position
InStrategies ==
    {MovingAverageCrossover(<<"A">>, 1, 2, a) : a \in {R(1), Rat(1, 2)}}
    \cup {RateOfChangeMomentum(<<"A">>, 1, R(5), R(-5), a) :
             a \in {R(1), Rat(1, 2)}}

\* (initial_capital, commission) of the engine
StrategyConfigs == {<<R(10), RZero>>, <<R(10), Rat(1, 10)>>}

\* BacktestEngine(...), add_data('A', df) and set_strategy(strategy) done
StrategyInit ==
    /\ \E c \in StrategyConfigs :
          /\ init_args = c
          /\ portfolio = Portfolio(c[1], c[2])
          /\ portfolio2 = Portfolio(c[1], c[2])
    /\ client_order = NoneV
    /\ NoMetrics
    /\ \E df \in InBars : data = ("A" :> df)
    /\ \E strat \in InStrategies : strategy = <<strat>>
    /\ current_date = NoneV
    /\ pc = "idle"
    /\ all_dates = <<>>
    /\ date_idx = 0
    /\ current_data = EmptyDict
    /\ signals = <<>>
    /\ run_start_len = 0
    /\ runs = 0
    /\ emitted = 0
    /\ last_call = NoCall
    /\ prev_call = NoCall
    /\ ncalls = 0

\* run(): the head of one loop iteration, the signals being those of the
\* bound strategy
StrategyNextDate ==
    /\ pc = "loop"
    /\ date_idx < Len(all_dates)
    /\ LET date == all_dates[date_idx + 1]
           cdata == CurrentData(data, date)
           g == generate_signals(strategy[1], cdata, portfolio)
       IN  /\ current_date' = <<date>>
           /\ current_data' = cdata
           /\ strategy' = <<g.strategy>>
           /\ signals' = g.signals
    /\ pc' = "signals"
    /\ UNCHANGED <<portfolio, portfolio2, data, all_dates, date_idx,
                   run_start_len, runs, emitted, last_call, prev_call, ncalls>>
    /\ UNCHANGED client_vars

StrategyNext ==
    \/ RunBegin
    \/ StrategyNextDate
    \/ RunExecuteSignal
    \/ RunUpdatePositions
    \/ RunReturn

StrategySpec == StrategyInit /\ [][StrategyNext]_vars

\* a timestamp has been processed: its snapshot is taken and the loop is
\* back at its head, or run() has returned
TimestampProcessed ==
    /\ pc \in {"loop", "returned"}
    /\ date_idx > 0

\* C36: after every processed timestamp the strategy's in-position flag of
\* a symbol is True exactly when the ledger holds a positive quantity of it
C36_FlagFollowsLedger ==
    TimestampProcessed =>
       \A symbol \in DOMAIN strategy[1].positions :
          strategy[1].positions[symbol]
             <=> HeldQuantity(portfolio, symbol) > 0

\* a buy signal was refused for lack of cash and the flag stayed True with
\* nothing held
C36_FlagTrueNothingHeld ==
    /\ TimestampProcessed
    /\ strategy[1].positions["A"]
    /\ "A" \notin DOMAIN portfolio.positions
    /\ portfolio.trades = <<>>
    /\ last_call.op = "update_positions"
    /\ IsExec(prev_call, BUY) /\ ~prev_call.result

\* run() has returned over a series with a later buy condition, and the
\* strategy that was refused once never bought
C36_NeverBoughtAgain ==
    /\ pc = "returned"
    /\ strategy[1].positions["A"]
    /\ portfolio.trades = <<>>
    /\ portfolio.executor.next_order_id = 2
    /\ \E j, k \in 1..MaxBars :
          /\ j < k
          /\ Crossing(strategy[1],
                      CloseValues(LocUpTo(data["A"], j))) = "bullish"
          /\ Crossing(strategy[1],
                      CloseValues(LocUpTo(data["A"], k))) = "bullish"

\* at commission rate 0 the single-symbol strategies are never refused, and
\* the flag does follow the ledger
C36_FlagFollowsLedgerAtRateZero ==
    (TimestampProcessed /\ portfolio.executor.commission_rate = RZero) =>
       \A symbol \in DOMAIN strategy[1].positions :
          strategy[1].positions[symbol]
             <=> HeldQuantity(portfolio, symbol) > 0

\* the momentum strategy has bought and then sold its whole position
C36_MomentumRoundTrip ==
    /\ strategy[1].name = "Rate of Change Momentum"
    /\ Len(portfolio.trades) = 2
    /\ portfolio.trades[2].side = SELL
    /\ ~strategy[1].positions["A"]

====
